---- MODULE Spec2Model ----
(***************************************************************************)
(* tickle: a scan of a directory tree for task markers.                    *)
(*                                                                         *)
(* Python strings are modelled as sequences of one-character strings, so   *)
(* that substring tests, glob matches, path splitting and the ordering of  *)
(* strings are computed and not assumed.  An optional value (None or a     *)
(* value) is a sequence of length 0 or 1.                                  *)
(***************************************************************************)
EXTENDS Integers, Sequences, FiniteSets, TLC

\* ------------------------------------------------------------ bounds
\* Largest number of files in a tree.
MaxFiles == 2
\* Longest marker list handed to a detector in the detector calls.
MaxMarkers == 2
\* Largest line number handed to a detector in the detector calls.
MaxLineNum == 2
\* Bound on the length of a task list handed to a formatter or to the
\* summary panel.
MaxTasks == 3

\* ------------------------------------------------------------ optional values
None == <<>>
Some(x) == <<x>>
IsNone(o) == Len(o) = 0
Get(o) == o[1]

\* ------------------------------------------------------------ strings
\* Code point of each character the model uses (Python orders strings by
\* code point).
ord(c) ==
  CASE c = "\t" -> 9   [] c = "\n" -> 10  [] c = " " -> 32  [] c = "!" -> 33
    [] c = "#" -> 35   [] c = "*" -> 42   [] c = "+" -> 43  [] c = "-" -> 45
    [] c = "." -> 46   [] c = "/" -> 47   [] c = "1" -> 49  [] c = ":" -> 58
    [] c = "=" -> 61   [] c = "?" -> 63
    [] c = "A" -> 65   [] c = "B" -> 66   [] c = "C" -> 67  [] c = "D" -> 68
    [] c = "E" -> 69   [] c = "F" -> 70   [] c = "G" -> 71  [] c = "H" -> 72
    [] c = "I" -> 73   [] c = "K" -> 75   [] c = "M" -> 77  [] c = "N" -> 78
    [] c = "O" -> 79   [] c = "P" -> 80   [] c = "T" -> 84  [] c = "U" -> 85
    [] c = "X" -> 88   [] c = "Z" -> 90
    [] c = "[" -> 91   [] c = "]" -> 93
    [] c = "a" -> 97   [] c = "b" -> 98   [] c = "c" -> 99  [] c = "d" -> 100
    [] c = "e" -> 101  [] c = "f" -> 102  [] c = "g" -> 103 [] c = "h" -> 104
    [] c = "i" -> 105  [] c = "k" -> 107 [] c = "m" -> 109  [] c = "n" -> 110 [] c = "o" -> 111
    [] c = "p" -> 112  [] c = "r" -> 114  [] c = "s" -> 115 [] c = "t" -> 116
    [] c = "u" -> 117  [] c = "v" -> 118 [] c = "x" -> 120  [] c = "y" -> 121 [] c = "z" -> 122

\* str.lower() on one character.
lower_char(c) ==
  CASE c = "A" -> "a" [] c = "B" -> "b" [] c = "C" -> "c" [] c = "D" -> "d"
    [] c = "E" -> "e" [] c = "F" -> "f" [] c = "G" -> "g" [] c = "H" -> "h"
    [] c = "I" -> "i" [] c = "K" -> "k" [] c = "M" -> "m" [] c = "N" -> "n"
    [] c = "O" -> "o" [] c = "P" -> "p" [] c = "T" -> "t" [] c = "U" -> "u"
    [] c = "X" -> "x" [] c = "Z" -> "z"
    [] OTHER -> c

lower(s) == [i \in 1..Len(s) |-> lower_char(s[i])]

Whitespace == {" ", "\t", "\n"}

startswith(s, prefix) ==
  /\ Len(prefix) <= Len(s)
  /\ SubSeq(s, 1, Len(prefix)) = prefix

endswith(s, suffix) ==
  /\ Len(suffix) <= Len(s)
  /\ SubSeq(s, Len(s) - Len(suffix) + 1, Len(s)) = suffix

\* `sub in s`: sub occurs in s as a contiguous run of characters.
contains(s, sub) ==
  \E i \in 1..(Len(s) - Len(sub) + 1) : SubSeq(s, i, i + Len(sub) - 1) = sub

RECURSIVE lstrip(_)
lstrip(s) ==
  IF s # <<>> /\ Head(s) \in Whitespace THEN lstrip(Tail(s)) ELSE s

RECURSIVE rstrip(_)
rstrip(s) ==
  IF s # <<>> /\ s[Len(s)] \in Whitespace
  THEN rstrip(SubSeq(s, 1, Len(s) - 1))
  ELSE s

strip(s) == rstrip(lstrip(s))

\* Position of the last occurrence of character c in s, 0 when there is none
\* (str.rfind, counted from 1).
RECURSIVE rfind(_, _)
rfind(s, c) ==
  IF s = <<>> THEN 0
  ELSE IF s[Len(s)] = c THEN Len(s)
  ELSE rfind(SubSeq(s, 1, Len(s) - 1), c)

\* Python's order on strings: by code point, a proper prefix first.
RECURSIVE str_lt(_, _)
str_lt(a, b) ==
  IF b = <<>> THEN FALSE
  ELSE IF a = <<>> THEN TRUE
  ELSE IF Head(a) = Head(b) THEN str_lt(Tail(a), Tail(b))
  ELSE ord(Head(a)) < ord(Head(b))

\* ------------------------------------------------------------ pathlib
\* A path is the sequence of its components (Path.parts).

RECURSIVE split(_, _, _)
split(s, sep, cur) ==
  IF s = <<>> THEN <<cur>>
  ELSE IF Head(s) = sep THEN <<cur>> \o split(Tail(s), sep, <<>>)
  ELSE split(Tail(s), sep, Append(cur, Head(s)))

\* Path(directory) for a relative directory string: split at "/", empty
\* and "." components dropped.
Path(directory) ==
  SelectSeq(split(directory, "/", <<>>), LAMBDA p : p # <<>> /\ p # <<".">>)

RECURSIVE join(_, _)
join(parts, sep) ==
  IF parts = <<>> THEN <<>>
  ELSE IF Len(parts) = 1 THEN parts[1]
  ELSE parts[1] \o <<sep>> \o join(Tail(parts), sep)

\* str(path): the components joined by "/", "." for the empty path.
str(path) == IF path = <<>> THEN <<".">> ELSE join(path, "/")

\* path.name: the final component.
name(path) == IF path = <<>> THEN <<>> ELSE path[Len(path)]

\* path.suffix: the final component from its last dot on, empty when the
\* dot is the first or the last character or when there is none.
suffix(path) ==
  LET n == name(path)
      i == rfind(n, ".")
  IN  IF 1 < i /\ i < Len(n) THEN SubSeq(n, i, Len(n)) ELSE <<>>

\* ------------------------------------------------------------ fnmatch
\* One character against the body of a bracket expression (ranges a-b).
RECURSIVE in_class(_, _)
in_class(c, stuff) ==
  IF stuff = <<>> THEN FALSE
  ELSE IF Len(stuff) >= 3 /\ stuff[2] = "-"
       THEN \/ (ord(stuff[1]) <= ord(c) /\ ord(c) <= ord(stuff[3]))
            \/ in_class(c, SubSeq(stuff, 4, Len(stuff)))
  ELSE \/ c = stuff[1]
       \/ in_class(c, Tail(stuff))

\* Index of the "]" closing the bracket expression whose "[" is at pat[i-1],
\* scanning from j; Len(pat) + 1 when it is not closed.
RECURSIVE class_end(_, _)
class_end(pat, j) ==
  IF j > Len(pat) THEN j
  ELSE IF pat[j] = "]" THEN j
  ELSE class_end(pat, j + 1)

bracket_end(pat, i) ==
  LET j1 == IF i <= Len(pat) /\ pat[i] = "!" THEN i + 1 ELSE i
      j2 == IF j1 <= Len(pat) /\ pat[j1] = "]" THEN j1 + 1 ELSE j1
  IN  class_end(pat, j2)

\* fnmatch(s, pat) on POSIX: "*" any run, "?" any one character, "[...]" a
\* character class ("[!...]" its complement), anything else itself; the
\* whole of s must match.
RECURSIVE fnmatch(_, _)
fnmatch(s, pat) ==
  IF pat = <<>> THEN s = <<>>
  ELSE
    LET c == Head(pat)
        rest == Tail(pat)
    IN  IF c = "*"
        THEN \E k \in 0..Len(s) : fnmatch(SubSeq(s, k + 1, Len(s)), rest)
        ELSE IF c = "?"
        THEN s # <<>> /\ fnmatch(Tail(s), rest)
        ELSE IF c = "[" /\ bracket_end(pat, 2) <= Len(pat)
        THEN LET j == bracket_end(pat, 2)
                 stuff == SubSeq(pat, 2, j - 1)
                 after == SubSeq(pat, j + 1, Len(pat))
                 hit == IF stuff[1] = "!"
                        THEN s # <<>> /\ ~in_class(Head(s), Tail(stuff))
                        ELSE s # <<>> /\ in_class(Head(s), stuff)
             IN  hit /\ fnmatch(Tail(s), after)
        ELSE s # <<>> /\ Head(s) = c /\ fnmatch(Tail(s), rest)

\* ------------------------------------------------------------ models.py
\* Task: the record a detector creates; the five attribution fields are
\* optional and default to None.
Task(file, line, marker, text) ==
  [file |-> file, line |-> line, marker |-> marker, text |-> text,
   author |-> None, author_email |-> None, commit_hash |-> None,
   commit_date |-> None, commit_message |-> None]

sTODO == <<"T", "O", "D", "O">>
sFIXME == <<"F", "I", "X", "M", "E">>
sBUG == <<"B", "U", "G">>
sNOTE == <<"N", "O", "T", "E">>
sHACK == <<"H", "A", "C", "K">>
sCHECKBOX == <<"C", "H", "E", "C", "K", "B", "O", "X">>

\* MARKER_PRIORITY.get(marker, 999)
MARKER_PRIORITY(marker) ==
  CASE marker = sBUG -> 0
    [] marker = sFIXME -> 1
    [] marker = sTODO -> 2
    [] marker = sHACK -> 3
    [] marker = sNOTE -> 4
    [] marker = sCHECKBOX -> 5
    [] OTHER -> 999

\* A sort key is a tuple; each component is written as a sequence of
\* integers (a string as its code points, an integer as itself), so that
\* Python's tuple order is the lexicographic order below.
codes(s) == [i \in 1..Len(s) |-> ord(s[i])]

RECURSIVE ints_lt(_, _)
ints_lt(a, b) ==
  IF b = <<>> THEN FALSE
  ELSE IF a = <<>> THEN TRUE
  ELSE IF Head(a) = Head(b) THEN ints_lt(Tail(a), Tail(b))
  ELSE Head(a) < Head(b)

RECURSIVE tuple_lt(_, _)
tuple_lt(k1, k2) ==
  IF k2 = <<>> THEN FALSE
  ELSE IF k1 = <<>> THEN TRUE
  ELSE IF Head(k1) = Head(k2) THEN tuple_lt(Tail(k1), Tail(k2))
  ELSE ints_lt(Head(k1), Head(k2))

\* A variant without the priority rank: markers in alphabetical order.
marker_sort_key_no_priority(task) ==
  << codes(task.marker), codes(task.file), <<task.line>> >>

\* A variant without the file: ties between files are left to the
\* order of arrival.
marker_sort_key_no_file(task) ==
  << <<MARKER_PRIORITY(task.marker)>>, codes(task.marker), <<task.line>> >>

marker_sort_key(task) ==
  << <<MARKER_PRIORITY(task.marker)>>, codes(task.marker),
     codes(task.file), <<task.line>> >>

\* A variant with the components swapped: by line, then file.
file_sort_key_line_first(task) == << <<task.line>>, codes(task.file) >>

file_sort_key(task) == << codes(task.file), <<task.line>> >>

\* A variant that takes only "file" for the file key and sorts by marker
\* otherwise.
get_sort_key_file_only(sort_by, task) ==
  IF sort_by = "file" THEN file_sort_key(task) ELSE marker_sort_key(task)
\* get_sort_key(sort_by)(task): anything but "marker" sorts by file.
get_sort_key(sort_by, task) ==
  IF sort_by = "marker" THEN marker_sort_key(task) ELSE file_sort_key(task)

\* A variant that is not stable: an element goes in front of the first
\* element whose key is greater or equal.
RECURSIVE insert_sorted_unstable(_, _, _)
insert_sorted_unstable(sorted, t, sort_by) ==
  IF sorted = <<>> THEN <<t>>
  ELSE IF ~tuple_lt(get_sort_key(sort_by, Head(sorted)), get_sort_key(sort_by, t))
  THEN <<t>> \o sorted
  ELSE <<Head(sorted)>> \o insert_sorted_unstable(Tail(sorted), t, sort_by)
\* A variant that keeps one task per key: a task whose key is already in
\* the list is dropped.
RECURSIVE insert_sorted_one_per_key(_, _, _)
insert_sorted_one_per_key(sorted, t, sort_by) ==
  IF sorted = <<>> THEN <<t>>
  ELSE IF get_sort_key(sort_by, t) = get_sort_key(sort_by, Head(sorted))
  THEN sorted
  ELSE IF tuple_lt(get_sort_key(sort_by, t), get_sort_key(sort_by, Head(sorted)))
  THEN <<t>> \o sorted
  ELSE <<Head(sorted)>> \o insert_sorted_one_per_key(Tail(sorted), t, sort_by)
\* list.sort(key=...): a stable sort, here by insertion: an element goes
\* in front of the first element whose key is strictly greater.
RECURSIVE insert_sorted(_, _, _)
insert_sorted(sorted, t, sort_by) ==
  IF sorted = <<>> THEN <<t>>
  ELSE IF tuple_lt(get_sort_key(sort_by, t), get_sort_key(sort_by, Head(sorted)))
  THEN <<t>> \o sorted
  ELSE <<Head(sorted)>> \o insert_sorted(Tail(sorted), t, sort_by)

RECURSIVE sort(_, _)
sort(list, sort_by) ==
  IF list = <<>> THEN <<>>
  ELSE insert_sorted(sort(SubSeq(list, 1, Len(list) - 1), sort_by),
                     list[Len(list)], sort_by)

\* ------------------------------------------------------------ detectors.py
DEFAULT_TASK_MARKERS == <<sTODO, sFIXME, sBUG, sNOTE, sHACK>>

\* A variant that configures the default markers whatever is passed.
CommentMarkerDetector_defaults(markers) ==
  [kind |-> "comment", markers |-> DEFAULT_TASK_MARKERS, detectors |-> <<>>]
\* CommentMarkerDetector(markers): markers is None or a list.
CommentMarkerDetector(markers) ==
  [kind |-> "comment",
   markers |-> IF IsNone(markers) THEN DEFAULT_TASK_MARKERS ELSE Get(markers),
   detectors |-> <<>>]

MarkdownCheckboxDetector ==
  [kind |-> "checkbox", markers |-> <<>>, detectors |-> <<>>]

CompositeDetector(detectors) ==
  [kind |-> "composite", markers |-> <<>>, detectors |-> detectors]

\* First position at which sub occurs in s, 0 when it does not (str.find,
\* counted from 1).
find(s, sub) ==
  IF contains(s, sub)
  THEN CHOOSE i \in 1..(Len(s) - Len(sub) + 1) :
         /\ SubSeq(s, i, i + Len(sub) - 1) = sub
         /\ \A j \in 1..(i - 1) : SubSeq(s, j, j + Len(sub) - 1) # sub
  ELSE 0

\* A variant by position: the marker that occurs leftmost in the line.
comment_detect_leftmost(markers, line, line_num, filepath) ==
  LET found == {i \in 1..Len(markers) : contains(line, markers[i])}
  IN  IF found = {} THEN <<>>
      ELSE LET i == CHOOSE k \in found :
                      \A j \in found :
                        \/ find(line, markers[k]) < find(line, markers[j])
                        \/ (find(line, markers[k]) = find(line, markers[j])
                            /\ k <= j)
           IN  <<Task(filepath, line_num, markers[i], strip(line))>>

\* A variant that compares without regard to case.
RECURSIVE comment_detect_nocase(_, _, _, _)
comment_detect_nocase(markers, line, line_num, filepath) ==
  IF markers = <<>> THEN <<>>
  ELSE IF contains(lower(line), lower(Head(markers)))
  THEN <<Task(filepath, line_num, Head(markers), strip(line))>>
  ELSE comment_detect_nocase(Tail(markers), line, line_num, filepath)
\* CommentMarkerDetector.detect: the markers are tried in list order and
\* the first one found in the line gives the one Task.
RECURSIVE comment_detect(_, _, _, _)
comment_detect(markers, line, line_num, filepath) ==
  IF markers = <<>> THEN <<>>
  ELSE IF contains(line, Head(markers))
  THEN <<Task(filepath, line_num, Head(markers), strip(line))>>
  ELSE comment_detect(Tail(markers), line, line_num, filepath)

\* MarkdownCheckboxDetector.detect: a list item ("-", "*" or "+" and a
\* space, after any indentation) followed by an unchecked box "[ ]".
checkbox_detect(line, line_num, filepath) ==
  LET stripped == lstrip(line)
  IN  IF \E bullet \in {"-", "*", "+"} :
           startswith(stripped, <<bullet>> \o <<" ", "[", " ", "]">>)
      THEN <<Task(filepath, line_num, sCHECKBOX, strip(line))>>
      ELSE <<>>

\* Detector.detect, by variant; the composite concatenates the results of
\* its sub-detectors in list order.
RECURSIVE detect(_, _, _, _)
RECURSIVE composite_detect(_, _, _, _)
composite_detect(detectors, line, line_num, filepath) ==
  IF detectors = <<>> THEN <<>>
  ELSE detect(Head(detectors), line, line_num, filepath)
       \o composite_detect(Tail(detectors), line, line_num, filepath)

detect(d, line, line_num, filepath) ==
  CASE d.kind = "comment" -> comment_detect(d.markers, line, line_num, filepath)
    [] d.kind = "checkbox" -> checkbox_detect(line, line_num, filepath)
    [] d.kind = "composite" -> composite_detect(d.detectors, line, line_num, filepath)

\* create_detector(detector_type, markers): the detector, or ValueError.
create_detector(detector_type, markers) ==
  IF detector_type = "comment"
  THEN [raised |-> "", value |-> Some(CommentMarkerDetector(markers))]
  ELSE [raised |-> "ValueError", value |-> None]

\* ------------------------------------------------------------ scanner.py
BINARY_EXTENSIONS ==
  {<<".", "p", "n", "g">>, <<".", "j", "p", "g">>, <<".", "j", "p", "e", "g">>, <<".", "e", "x", "e">>, <<".", "b", "i", "n">>, <<".", "s", "o">>, <<".", "d", "l", "l">>, <<".", "p", "y", "c">>}

\* The hidden rule of _should_ignore_path: some component of the path
\* starts with "." and is not "." itself.
has_hidden_part(filepath) ==
  \E i \in 1..Len(filepath) :
    startswith(filepath[i], <<".">>) /\ filepath[i] # <<".">>

\* A variant that matches the file name alone.
RECURSIVE matches_pattern_name_only(_, _)
matches_pattern_name_only(filepath, ignore_patterns) ==
  IF ignore_patterns = <<>> THEN FALSE
  ELSE \/ fnmatch(name(filepath), Head(ignore_patterns))
       \/ matches_pattern_name_only(filepath, Tail(ignore_patterns))

\* A variant that matches the pattern as it stands, without the "*" put
\* around it: the whole path string, or the file name.
RECURSIVE matches_pattern_as_given(_, _)
matches_pattern_as_given(filepath, ignore_patterns) ==
  IF ignore_patterns = <<>> THEN FALSE
  ELSE \/ fnmatch(str(filepath), Head(ignore_patterns))
       \/ fnmatch(name(filepath), Head(ignore_patterns))
       \/ matches_pattern_as_given(filepath, Tail(ignore_patterns))
\* The pattern loop of _should_ignore_path.
RECURSIVE matches_pattern(_, _)
matches_pattern(filepath, ignore_patterns) ==
  IF ignore_patterns = <<>> THEN FALSE
  ELSE \/ fnmatch(str(filepath), <<"*">> \o Head(ignore_patterns) \o <<"*">>)
       \/ fnmatch(name(filepath), Head(ignore_patterns))
       \/ matches_pattern(filepath, Tail(ignore_patterns))

should_ignore_path(filepath, ignore_patterns, ignore_hidden) ==
  IF ignore_hidden /\ has_hidden_part(filepath) THEN TRUE
  ELSE IF ignore_patterns = <<>> THEN FALSE
  ELSE matches_pattern(filepath, ignore_patterns)

\* A variant that builds the detector from the markers whatever is passed.
effective_detector_from_markers(detector, markers) ==
  CompositeDetector(
    IF IsNone(markers) \/ \E i \in 1..Len(Get(markers)) : Get(markers)[i] = sCHECKBOX
    THEN <<CommentMarkerDetector(markers), MarkdownCheckboxDetector>>
    ELSE <<CommentMarkerDetector(markers)>>)

\* A variant that adds the checkbox detector whatever the markers.
effective_detector_always_checkbox(detector, markers) ==
  IF ~IsNone(detector) THEN Get(detector)
  ELSE CompositeDetector(<<CommentMarkerDetector(markers),
                           MarkdownCheckboxDetector>>)

\* A variant that never adds the checkbox detector.
effective_detector_without_checkbox(detector, markers) ==
  IF ~IsNone(detector) THEN Get(detector)
  ELSE CompositeDetector(<<CommentMarkerDetector(markers)>>)
\* A variant with the sub-detectors in the other order.
effective_detector_checkbox_first(detector, markers) ==
  IF ~IsNone(detector) THEN Get(detector)
  ELSE CompositeDetector(
         IF IsNone(markers)
            \/ \E i \in 1..Len(Get(markers)) : Get(markers)[i] = sCHECKBOX
         THEN <<MarkdownCheckboxDetector, CommentMarkerDetector(markers)>>
         ELSE <<CommentMarkerDetector(markers)>>)
\* The detector scan_directory uses: the one passed in, or a composite of
\* a comment detector for the markers and, when markers is None or holds
\* "CHECKBOX", a checkbox detector.
effective_detector(detector, markers) ==
  IF ~IsNone(detector) THEN Get(detector)
  ELSE LET comment_detector == Get(create_detector("comment", markers).value)
           with_checkbox ==
             IsNone(markers)
             \/ \E i \in 1..Len(Get(markers)) : Get(markers)[i] = sCHECKBOX
       IN  CompositeDetector(
             IF with_checkbox
             THEN <<comment_detector, MarkdownCheckboxDetector>>
             ELSE <<comment_detector>>)

\* A variant that drops what the file has given when its read raises.
RECURSIVE read_lines_all_or_nothing(_, _, _, _, _, _)
read_lines_all_or_nothing(d, filepath_str, lines, fault, line_num, acc) ==
  IF fault = line_num THEN [tasks |-> <<>>, raised |-> TRUE]
  ELSE IF line_num > Len(lines) THEN [tasks |-> acc, raised |-> FALSE]
  ELSE read_lines_all_or_nothing(d, filepath_str, lines, fault, line_num + 1,
                                 acc \o detect(d, lines[line_num], line_num, filepath_str))
\* The body of the try block for one file: the lines are read in order
\* from line_num on, each handed to the detector and its Tasks appended;
\* an exception at line `fault` (1: at open or at the first read) ends the
\* read and keeps what was appended before it.
RECURSIVE read_lines(_, _, _, _, _, _)
read_lines(d, filepath_str, lines, fault, line_num, acc) ==
  IF fault = line_num THEN [tasks |-> acc, raised |-> TRUE]
  ELSE IF line_num > Len(lines) THEN [tasks |-> acc, raised |-> FALSE]
  ELSE read_lines(d, filepath_str, lines, fault, line_num + 1,
                  acc \o detect(d, lines[line_num], line_num, filepath_str))

\* ------------------------------------------------------------ inputs
\* The directory entries a tree is drawn from: the path below the root,
\* whether it is a directory, the lines of a file as iteration yields them
\* (with their line ends), and the line at which reading the file raises
\* (0: it never does; 1: at open or on the first read).
Catalogue ==
  << [rel |-> <<<<"a", ".", "p", "y">>>>, is_dir |-> FALSE, fault |-> 0,
      lines |-> <<<<"x", " ", "=", " ", "1", "\n">>, <<" ", " ", "#", " ", "B", "U", "G", " ", "T", "O", "D", "O", "\n">>>>],
     [rel |-> <<<<"b", ".", "p", "y">>>>, is_dir |-> FALSE, fault |-> 0,
      lines |-> <<<<"#", " ", "T", "O", "D", "O", " ", "a", "\n">>, <<"#", " ", "T", "O", "D", "O", " ", "F", "I", "X", "M", "E", "\n">>>>],
     [rel |-> <<<<"s", "u", "b">>>>, is_dir |-> TRUE, fault |-> 0, lines |-> <<>>],
     [rel |-> <<<<"s", "u", "b">>, <<"n", ".", "m", "d">>>>, is_dir |-> FALSE, fault |-> 0,
      lines |-> <<<<"-", " ", "[", " ", "]", " ", "t", "\n">>, <<"-", " ", "[", "x", "]", " ", "u", "\n">>, <<"*", " ", "[", " ", "]", " ", "N", "O", "T", "E", "\n">>>>],
     [rel |-> <<<<".", "g", "i", "t">>>>, is_dir |-> TRUE, fault |-> 0, lines |-> <<>>],
     [rel |-> <<<<".", "g", "i", "t">>, <<"c", "o", "n", "f", "i", "g">>>>, is_dir |-> FALSE, fault |-> 0,
      lines |-> <<<<"#", " ", "T", "O", "D", "O", "\n">>>>],
     [rel |-> <<<<"s", "u", "b">>, <<".", "e", "n", "v">>>>, is_dir |-> FALSE, fault |-> 0,
      lines |-> <<<<"#", " ", "H", "A", "C", "K", "\n">>>>],
     [rel |-> <<<<"i", ".", "p", "n", "g">>>>, is_dir |-> FALSE, fault |-> 0,
      lines |-> <<<<"T", "O", "D", "O", "\n">>>>],
     [rel |-> <<<<"u", ".", "t", "x", "t">>>>, is_dir |-> FALSE, fault |-> 2,
      lines |-> <<<<"#", " ", "B", "U", "G", " ", "X", "X", "X", "\n">>, <<"#", " ", "T", "O", "D", "O", "\n">>>>],
     [rel |-> <<<<"v", ".", "d", "a", "t">>>>, is_dir |-> FALSE, fault |-> 1,
      lines |-> <<<<"#", " ", "T", "O", "D", "O", "\n">>>>],
     [rel |-> <<<<"T", "O", "D", "O">>>>, is_dir |-> FALSE, fault |-> 0,
      lines |-> <<<<"#", " ", "F", "I", "X", "M", "E", "\n">>>>] >>


Entries == 1..Len(Catalogue)

Files == {f \in Entries : ~Catalogue[f].is_dir}

\* The directories an entry lies in, below the root.
ancestors(f) ==
  {g \in Entries :
     /\ Catalogue[g].is_dir
     /\ Len(Catalogue[g].rel) < Len(Catalogue[f].rel)
     /\ Catalogue[g].rel = SubSeq(Catalogue[f].rel, 1, Len(Catalogue[g].rel))}

\* A tree: up to MaxFiles files, and the directories they lie in.
Trees ==
  {t \cup UNION {ancestors(f) : f \in t} :
     t \in {s \in SUBSET Files : Cardinality(s) <= MaxFiles}}

\* The entry of the catalogue at a path below the root.
entry(rel) == CHOOSE f \in Entries : Catalogue[f].rel = rel
a_py == entry(<<<<"a", ".", "p", "y">>>>)
b_py == entry(<<<<"b", ".", "p", "y">>>>)
n_md == entry(<<<<"s", "u", "b">>, <<"n", ".", "m", "d">>>>)
git_config == entry(<<<<".", "g", "i", "t">>, <<"c", "o", "n", "f", "i", "g">>>>)
dot_env == entry(<<<<"s", "u", "b">>, <<".", "e", "n", "v">>>>)
i_png == entry(<<<<"i", ".", "p", "n", "g">>>>)
u_txt == entry(<<<<"u", ".", "t", "x", "t">>>>)
v_dat == entry(<<<<"v", ".", "d", "a", "t">>>>)
TODO_file == entry(<<<<"T", "O", "D", "O">>>>)

Directories == {<<".">>, <<"s", "u", "b">>, <<".", "h">>}

MarkerArgs ==
  {None, Some(<<sFIXME, sTODO>>), Some(<<sTODO, sCHECKBOX>>),
   Some(<<<<"X", "X", "X">>, <<"x">>, sBUG>>), Some(<<<<>>>>)}

DetectorArgs == {None, Some(CommentMarkerDetector(Some(<<sTODO>>)))}

IgnoreArgs == {None, Some(<<<<"b", ".", "p", "y">>>>), Some(<<<<"s", "u", "b">>, <<"[", "!", "b", "-", "z", "]", ".", "p", "?">>>>)}

SortArgs == {"file", "marker", "name"}

\* The arguments of a call but sort_by, which only the final sort reads
\* and which is drawn there.
Args ==
  [directory : Directories, markers : MarkerArgs,
   ignore_patterns : IgnoreArgs, detector : DetectorArgs,
   ignore_hidden : BOOLEAN]

\* ------------------------------------------------------------ state
VARIABLES
  tree,            \* the entries under the root directory
  args,            \* the arguments of the scan_directory call
  sort_by,         \* the sort_by argument, "" until the sort reads it
  pc,              \* "call", "walk", "return"; "detect", "detected"
  ignore_patterns, \* scan_directory's ignore_patterns (None until defaulted)
  detector,        \* scan_directory's detector (None until built)
  directory_path,  \* Path(directory)
  outcome,         \* per entry: "pending", or what the loop did with it
  results,         \* the list of Tasks
  call,            \* a call under study: the arguments (of main: argv)
  returned,        \* a call under study: None, or what it returned
  stdout           \* what main has written to standard output

vars == <<tree, args, sort_by, pc, ignore_patterns, detector, directory_path,
          outcome, results, call, returned, stdout>>

\* The entries rglob has not yielded yet.
pending == {f \in tree : outcome[f] = "pending"}

\* A variant that walks the top level only (glob, not rglob): an entry
\* inside a directory is never yielded.
yields_top_level_only(f) ==
  /\ pc = "walk"
  /\ f \in pending
  /\ ancestors(f) = {}
\* for filepath in directory_path.rglob("*"): the entries come in any
\* order that yields a directory before what lies in it.
yields(f) ==
  /\ pc = "walk"
  /\ f \in pending
  /\ ancestors(f) \cap pending = {}

\* directory_path / rel
filepath_of(f) == directory_path \o Catalogue[f].rel

NoArgs ==
  [directory |-> <<".">>, markers |-> None, ignore_patterns |-> None,
   detector |-> None, ignore_hidden |-> TRUE]

NoCall ==
  [detector |-> MarkdownCheckboxDetector, line |-> <<>>, line_num |-> 1,
   filepath |-> <<>>]

\* Before the call there is the tree.
Init ==
  /\ tree \in Trees
  /\ args = NoArgs
  /\ sort_by = ""
  /\ pc = "call"
  /\ ignore_patterns = None
  /\ detector = None
  /\ directory_path = <<>>
  /\ outcome = [f \in tree |-> "pending"]
  /\ results = <<>>
  /\ call = NoCall
  /\ returned = None
  /\ stdout = <<>>

\* scan_directory up to the loop: the default for ignore_patterns, the
\* detector, the empty result list, Path(directory).
Enter ==
  /\ pc = "call"
  /\ \E a \in Args :
       /\ args' = a
       /\ ignore_patterns' =
            IF IsNone(a.ignore_patterns) THEN Some(<<>>) ELSE a.ignore_patterns
       /\ detector' = Some(effective_detector(a.detector, a.markers))
       /\ directory_path' = Path(a.directory)
  /\ results' = <<>>
  /\ pc' = "walk"
  /\ UNCHANGED <<tree, sort_by, outcome, call, returned, stdout>>

Step(f, what) ==
  /\ outcome' = [outcome EXCEPT ![f] = what]
  /\ UNCHANGED <<tree, args, sort_by, pc, ignore_patterns, detector,
                 directory_path, call, returned, stdout>>

\* A variant that looks the whole file name up in the denylist.
is_binary_by_name(f) == lower(name(filepath_of(f))) \in BINARY_EXTENSIONS

is_binary(f) == lower(suffix(filepath_of(f))) \in BINARY_EXTENSIONS

is_ignored(f) ==
  should_ignore_path(filepath_of(f), Get(ignore_patterns), args.ignore_hidden)

\* if filepath.is_dir(): continue
SkipDirectory(f) ==
  /\ yields(f)
  /\ Catalogue[f].is_dir
  /\ Step(f, "directory")
  /\ UNCHANGED results

\* if filepath.suffix.lower() in BINARY_EXTENSIONS: continue
SkipBinary(f) ==
  /\ yields(f)
  /\ ~Catalogue[f].is_dir
  /\ is_binary(f)
  /\ Step(f, "binary")
  /\ UNCHANGED results

\* if _should_ignore_path(...): continue
SkipIgnored(f) ==
  /\ yields(f)
  /\ ~Catalogue[f].is_dir
  /\ ~is_binary(f)
  /\ is_ignored(f)
  /\ Step(f, "ignored")
  /\ UNCHANGED results

\* The try block: the file is read line by line; an exception ends the
\* read and is swallowed.
ReadFile(f) ==
  /\ yields(f)
  /\ ~Catalogue[f].is_dir
  /\ ~is_binary(f)
  /\ ~is_ignored(f)
  /\ LET r == read_lines(Get(detector), str(filepath_of(f)),
                         Catalogue[f].lines, Catalogue[f].fault, 1, <<>>)
     IN  /\ results' = results \o r.tasks
         /\ Step(f, IF r.raised THEN "fault" ELSE "read")

\* After the loop: the sort, and the return.
Return ==
  /\ pc = "walk" /\ pending = {}
  /\ \E s \in SortArgs :
       /\ sort_by' = s
       /\ results' = sort(results, s)
  /\ pc' = "return"
  /\ UNCHANGED <<tree, args, ignore_patterns, detector, directory_path,
                 outcome, call, returned, stdout>>

Next ==
  \/ Enter
  \/ \E f \in tree : SkipDirectory(f)
  \/ \E f \in tree : SkipBinary(f)
  \/ \E f \in tree : SkipIgnored(f)
  \/ \E f \in tree : ReadFile(f)
  \/ Return

Spec == Init /\ [][Next]_vars

\* What the loop gathers from one entry with detector d.
gathered(d, f) ==
  IF Catalogue[f].is_dir \/ is_binary(f) \/ is_ignored(f) THEN <<>>
  ELSE read_lines(d, str(filepath_of(f)), Catalogue[f].lines,
                  Catalogue[f].fault, 1, <<>>).tasks

\* What the loop gathers when the entries come in catalogue order.
RECURSIVE gathered_in_catalogue_order(_, _)
gathered_in_catalogue_order(d, n) ==
  IF n = 0 THEN <<>>
  ELSE gathered_in_catalogue_order(d, n - 1)
       \o (IF n \in tree THEN gathered(d, n) ELSE <<>>)


\* The steps of the call by what they do to the position in the code and
\* to the outcome of an entry. Each is possible exactly when the action of
\* Next that takes it is: Enter has no condition but pc, the four cases of
\* the loop body are exhaustive for an entry the walk yields, and the sort
\* is total.
Begin == pc = "call" /\ pc' = "walk"

HandleEntry ==
  \E f \in tree :
    /\ yields(f)
    /\ outcome' \in {[outcome EXCEPT ![f] = what] :
                       what \in {"directory", "binary", "ignored", "read", "fault"}}

Leave == pc = "walk" /\ pending = {} /\ pc' = "return"

\* The scan is one sequential loop over a finite enumeration, run by one
\* thread: a step that stays possible is taken.
FairSpec ==
  Spec /\ WF_pc(Begin) /\ WF_outcome(HandleEntry) /\ WF_pc(Leave)
\* ------------------------------------------------------------ detector calls
\* detect as a function of its arguments: one call per behaviour.
\* The empty string is a marker the constructor accepts like any other.
MarkerUniverse == {sTODO, sFIXME, sBUG, <<>>}

RECURSIVE SeqsUpTo(_, _)
SeqsUpTo(S, n) ==
  IF n = 0 THEN {<<>>}
  ELSE LET shorter == SeqsUpTo(S, n - 1)
       IN  shorter \cup {Append(s, x) : s \in shorter, x \in S}

MarkerLists == SeqsUpTo(MarkerUniverse, MaxMarkers)

Lines ==
  {<<>>, <<" ", " ", "\t", "\n">>, <<"#", " ", "T", "O", "D", "O", " ", "a", "\n">>, <<"#", " ", "T", "O", "D", "O", " ", "F", "I", "X", "M", "E", "\n">>, <<" ", " ", "#", " ", "B", "U", "G", " ", "T", "O", "D", "O", "\n">>,
   <<"#", " ", "t", "o", "d", "o", " ", "F", "i", "x", "m", "e", "\n">>, <<"-", " ", "[", " ", "]", " ", "B", "U", "G", "\n">>, <<"-", " ", "[", "x", "]", " ", "u", "\n">>, <<"F", "I", "X", "M", "E", "B", "U", "G">>,
   <<"#", " ", "T", "O", "D", "O", ":", " ", "x">>, <<"#", " ", "t", "o", "d", "o", ":", " ", "x">>,
   <<"#", " ", "T", "o", "d", "o", ":", " ", "x">>}

DetectorsCalled ==
  {CommentMarkerDetector(Some(m)) : m \in MarkerLists}
  \cup {CommentMarkerDetector(None), MarkdownCheckboxDetector,
        effective_detector(None, None)}

InitDetect ==
  /\ call \in [detector : DetectorsCalled, line : Lines,
               line_num : 1..MaxLineNum, filepath : {<<"r", "/", "a", ".", "p", "y">>}]
  /\ returned = None
  /\ pc = "detect"
  /\ tree = {}
  /\ args = NoArgs
  /\ sort_by = ""
  /\ ignore_patterns = None
  /\ detector = None
  /\ directory_path = <<>>
  /\ outcome = <<>>
  /\ results = <<>>
  /\ stdout = <<>>

CallDetect ==
  /\ pc = "detect"
  /\ returned' = Some(detect(call.detector, call.line, call.line_num,
                             call.filepath))
  /\ pc' = "detected"
  /\ UNCHANGED <<tree, args, sort_by, ignore_patterns, detector,
                 directory_path, outcome, results, call, stdout>>

NextDetect == CallDetect

SpecDetect == InitDetect /\ [][NextDetect]_vars

\* ------------------------------------------------------------ output.py
\* A formatter is a record: its variant, and git_verbose (the JSON
\* formatter has none).
TextFormatter(git_verbose) == [kind |-> "text", git_verbose |-> git_verbose]

JSONFormatter == [kind |-> "json", git_verbose |-> FALSE]

MarkdownFormatter(git_verbose) ==
  [kind |-> "markdown", git_verbose |-> git_verbose]

\* A variant that falls back to the text formatter.
get_formatter_or_text(format_type, git_verbose) ==
  CASE format_type = "json" -> [raised |-> "", value |-> Some(JSONFormatter)]
    [] format_type = "markdown" ->
         [raised |-> "", value |-> Some(MarkdownFormatter(git_verbose))]
    [] OTHER -> [raised |-> "", value |-> Some(TextFormatter(git_verbose))]

\* get_formatter(format_type, git_verbose): the formatter, or ValueError.
get_formatter(format_type, git_verbose) ==
  CASE format_type = "text" ->
         [raised |-> "", value |-> Some(TextFormatter(git_verbose))]
    [] format_type = "json" -> [raised |-> "", value |-> Some(JSONFormatter)]
    [] format_type = "markdown" ->
         [raised |-> "", value |-> Some(MarkdownFormatter(git_verbose))]
    [] OTHER -> [raised |-> "ValueError", value |-> None]

\* f"{n}": an integer in decimal.
RECURSIVE int_str(_)
int_str(n) ==
  IF n < 0 THEN <<"-">> \o int_str(0 - n)
  ELSE IF n < 10 THEN <<<<"0", "1", "2", "3", "4", "5", "6", "7", "8", "9">>[n + 1]>>
  ELSE int_str(n \div 10) \o <<<<"0", "1", "2", "3", "4", "5", "6", "7", "8", "9">>[(n % 10) + 1]>>

\* sep.join(parts) for a separator of any length.
RECURSIVE join_str(_, _)
join_str(parts, sep) ==
  IF parts = <<>> THEN <<>>
  ELSE IF Len(parts) = 1 THEN parts[1]
  ELSE parts[1] \o sep \o join_str(Tail(parts), sep)

\* s.replace(old, new) for a non-empty old: every occurrence, found from
\* the left and not overlapping, is replaced.
RECURSIVE replace(_, _, _)
replace(s, old, new) ==
  IF Len(s) < Len(old) THEN s
  ELSE IF startswith(s, old)
  THEN new \o replace(SubSeq(s, Len(old) + 1, Len(s)), old, new)
  ELSE <<Head(s)>> \o replace(Tail(s), old, new)

\* The escape character that opens a terminal colour code.
ESC == "ESC"

\* The grave accent, which markdown puts around code.
GRAVE == "GRAVE"

\* colorama: Fore.X and Style.RESET_ALL are the codes ESC [ digits m.
ansi(digits) == <<ESC, "[">> \o digits \o <<"m">>

Fore_WHITE == ansi(<<"3", "7">>)

Fore_LIGHTBLACK_EX == ansi(<<"9", "0">>)

Style_RESET_ALL == ansi(<<"0">>)

\* MARKER_COLORS.get(marker, Fore.WHITE)
MARKER_COLORS(marker) ==
  CASE marker = sTODO -> ansi(<<"3", "4">>)
    [] marker = sFIXME -> ansi(<<"3", "3">>)
    [] marker = sBUG -> ansi(<<"3", "1">>)
    [] marker = sNOTE -> ansi(<<"3", "6">>)
    [] marker = sHACK -> ansi(<<"3", "5">>)
    [] marker = sCHECKBOX -> ansi(<<"3", "2">>)
    [] OTHER -> Fore_WHITE

\* Task.__str__
Task_str(task) ==
  task.file \o <<":">> \o int_str(task.line) \o <<":", " ", "[">> \o task.marker \o <<"]", " ">>
  \o task.text

\* `if x:` for an optional string: neither None nor empty.
truthy(o) == ~IsNone(o) /\ Get(o) # <<>>

\* naturaltime(datetime.fromisoformat(commit_date)): the relative time the
\* library gives for the date, None when the date does not parse
\* (ValueError).
relative_time(commit_date) ==
  CASE commit_date = <<"2", "0", "2", "4", "-", "0", "5", "-", "0", "1">> -> Some(<<"a", " ", "y", "e", "a", "r", " ", "a", "g", "o">>)
    [] commit_date = <<"2", "0", "2", "4", "-", "0", "5", "-", "0", "1", "T", "1", "0", ":", "0", "0", ":", "0", "0">> -> Some(<<"a", " ", "y", "e", "a", "r", " ", "a", "g", "o">>)
    [] OTHER -> None

\* _format_git_info of the text and the markdown formatter, which differ
\* in how the short hash is wrapped.
format_git_info(formatter, task) ==
  LET by == IF truthy(task.author)
            THEN <<<<"b", "y", " ">> \o Get(task.author)>> ELSE <<>>
      when == IF truthy(task.commit_date)
                 /\ ~IsNone(relative_time(Get(task.commit_date)))
              THEN <<Get(relative_time(Get(task.commit_date)))>> ELSE <<>>
      short_hash == IF truthy(task.commit_hash)
                    THEN SubSeq(Get(task.commit_hash), 1,
                                IF Len(Get(task.commit_hash)) < 7
                                THEN Len(Get(task.commit_hash)) ELSE 7)
                    ELSE <<>>
      hash == IF formatter.git_verbose /\ truthy(task.commit_hash)
              THEN IF formatter.kind = "text"
                   THEN <<<<"(">> \o short_hash \o <<")">>>>
                   ELSE <<<<GRAVE>> \o short_hash \o <<GRAVE>>>>
              ELSE <<>>
      message == IF formatter.git_verbose /\ truthy(task.commit_message)
                 THEN <<<<"\"">> \o Get(task.commit_message) \o <<"\"">>>>
                 ELSE <<>>
  IN  join_str(by \o when \o hash \o message, <<",", " ">>)

\* The line TextFormatter.format makes of one task.
text_line(formatter, task) ==
  LET colored_str ==
        replace(Task_str(task), <<"[">> \o task.marker \o <<"]">>,
                MARKER_COLORS(task.marker) \o <<"[">> \o task.marker \o <<"]">>
                \o Style_RESET_ALL)
  IN  IF truthy(task.author)
      THEN colored_str \o <<" ">> \o Fore_LIGHTBLACK_EX
           \o format_git_info(formatter, task) \o Style_RESET_ALL
      ELSE colored_str

\* A variant without the message for an empty list.
text_format_no_message(formatter, tasks) ==
  join_str([i \in 1..Len(tasks) |-> text_line(formatter, tasks[i])],
           <<"\n">>)

\* A variant that prints the tasks last to first.
text_format_reversed(formatter, tasks) ==
  IF tasks = <<>> THEN <<"N", "o", " ", "t", "a", "s", "k", "s", " ", "f", "o", "u", "n", "d", "!">>
  ELSE join_str([i \in 1..Len(tasks) |->
                   text_line(formatter, tasks[Len(tasks) + 1 - i])], <<"\n">>)

\* TextFormatter.format
text_format(formatter, tasks) ==
  IF tasks = <<>> THEN <<"N", "o", " ", "t", "a", "s", "k", "s", " ", "f", "o", "u", "n", "d", "!">>
  ELSE join_str([i \in 1..Len(tasks) |-> text_line(formatter, tasks[i])],
                <<"\n">>)

\* A variant that gives each file one heading, at its first task.
RECURSIVE markdown_lines_once(_, _, _, _)
markdown_lines_once(formatter, tasks, i, current_file) ==
  IF i > Len(tasks) THEN <<>>
  ELSE LET task == tasks[i]
           heading == IF \A j \in 1..(i - 1) : tasks[j].file # task.file
                      THEN <<<<"\n", "#", "#", " ">> \o task.file \o <<"\n">>>> ELSE <<>>
           line_text == <<"-", " ", "L", "i", "n", "e", " ">> \o int_str(task.line) \o <<":", " ", "[">>
                        \o task.marker \o <<"]", " ">> \o task.text
       IN  heading \o <<line_text>>
           \o markdown_lines_once(formatter, tasks, i + 1, Some(task.file))

\* The loop of MarkdownFormatter.format from task i on: the heading when
\* the file differs from current_file, then the bullet.
RECURSIVE markdown_lines(_, _, _, _)
markdown_lines(formatter, tasks, i, current_file) ==
  IF i > Len(tasks) THEN <<>>
  ELSE LET task == tasks[i]
           heading == IF Some(task.file) # current_file
                      THEN <<<<"\n", "#", "#", " ">> \o task.file \o <<"\n">>>> ELSE <<>>
           line_text == <<"-", " ", "L", "i", "n", "e", " ">> \o int_str(task.line) \o <<":", " ", "[">>
                        \o task.marker \o <<"]", " ">> \o task.text
           git_info == format_git_info(formatter, task)
           bullet == IF truthy(task.author) /\ git_info # <<>>
                     THEN line_text \o <<" ", "_">> \o git_info \o <<"_">>
                     ELSE line_text
       IN  heading \o <<bullet>>
           \o markdown_lines(formatter, tasks, i + 1, Some(task.file))

\* MarkdownFormatter.format
markdown_format(formatter, tasks) ==
  IF tasks = <<>> THEN <<"#", " ", "O", "u", "t", "s", "t", "a", "n", "d", "i", "n", "g", " ", "T", "a", "s", "k", "s", "\n", "\n", "_", "N", "o", " ", "t", "a", "s", "k", "s", " ", "f", "o", "u", "n", "d", ".", "_">>
  ELSE join_str(<<<<"#", " ", "O", "u", "t", "s", "t", "a", "n", "d", "i", "n", "g", " ", "T", "a", "s", "k", "s", "\n">>>>
                \o markdown_lines(formatter, tasks, 1, None), <<"\n">>)

\* JSON values: a string, an integer or null.
json_string(s) == [t |-> "string", s |-> s, n |-> 0]

json_int(n) == [t |-> "int", s |-> <<>>, n |-> n]

json_null == [t |-> "null", s |-> <<>>, n |-> 0]

\* A variant that keeps the key of a field that is None, with null.
if_not_None_else_null(key, field) ==
  IF IsNone(field) THEN <<[key |-> key, value |-> json_null]>>
  ELSE <<[key |-> key, value |-> json_string(Get(field))]>>

\* One key of a dict, left out when the field is None.
if_not_None(key, field) ==
  IF IsNone(field) THEN <<>>
  ELSE <<[key |-> key, value |-> json_string(Get(field))]>>

\* Task.to_dict: the dict as the sequence of its items, in insertion order.
to_dict(task) ==
  <<[key |-> <<"f", "i", "l", "e">>, value |-> json_string(task.file)],
    [key |-> <<"l", "i", "n", "e">>, value |-> json_int(task.line)],
    [key |-> <<"m", "a", "r", "k", "e", "r">>, value |-> json_string(task.marker)],
    [key |-> <<"t", "e", "x", "t">>, value |-> json_string(task.text)]>>
  \o if_not_None(<<"a", "u", "t", "h", "o", "r">>, task.author)
  \o if_not_None(<<"a", "u", "t", "h", "o", "r", "_", "e", "m", "a", "i", "l">>, task.author_email)
  \o if_not_None(<<"c", "o", "m", "m", "i", "t", "_", "h", "a", "s", "h">>, task.commit_hash)
  \o if_not_None(<<"c", "o", "m", "m", "i", "t", "_", "d", "a", "t", "e">>, task.commit_date)
  \o if_not_None(<<"c", "o", "m", "m", "i", "t", "_", "m", "e", "s", "s", "a", "g", "e">>, task.commit_message)

\* json.dumps of one character of a string (ensure_ascii).
json_escape(c) ==
  CASE c = "\"" -> <<"\\", "\"">>
    [] c = "\\" -> <<"\\", "\\">>
    [] c = "\n" -> <<"\\", "n">>
    [] c = "\t" -> <<"\\", "t">>
    [] c = ESC -> <<"\\", "u", "0", "0", "1", "b">>
    [] OTHER -> <<c>>

RECURSIVE json_escaped(_)
json_escaped(s) ==
  IF s = <<>> THEN <<>> ELSE json_escape(Head(s)) \o json_escaped(Tail(s))

json_quoted(s) == <<"\"">> \o json_escaped(s) \o <<"\"">>

dumps_value(v) ==
  CASE v.t = "string" -> json_quoted(v.s)
    [] v.t = "int" -> int_str(v.n)
    [] v.t = "null" -> <<"n", "u", "l", "l">>

\* json.dumps(d, indent=2) of a dict inside the list: the items four
\* spaces in, the closing brace two.
dumps_dict(d) ==
  IF d = <<>> THEN <<"{", "}">>
  ELSE <<"{", "\n">>
       \o join_str([i \in 1..Len(d) |->
                      <<" ", " ", " ", " ">> \o json_quoted(d[i].key) \o <<":", " ">>
                      \o dumps_value(d[i].value)], <<",", "\n">>)
       \o <<"\n", " ", " ", "}">>

\* json.dumps(task_dicts, indent=2)
dumps(task_dicts) ==
  IF task_dicts = <<>> THEN <<"[", "]">>
  ELSE <<"[", "\n">>
       \o join_str([i \in 1..Len(task_dicts) |->
                      <<" ", " ">> \o dumps_dict(task_dicts[i])], <<",", "\n">>)
       \o <<"\n", "]">>

\* JSONFormatter.format
json_format(formatter, tasks) ==
  dumps([i \in 1..Len(tasks) |-> to_dict(tasks[i])])

\* Formatter.format, by variant.
format(formatter, tasks) ==
  CASE formatter.kind = "text" -> text_format(formatter, tasks)
    [] formatter.kind = "json" -> json_format(formatter, tasks)
    [] formatter.kind = "markdown" -> markdown_format(formatter, tasks)
\* A variant that lists the markers by name alone.
sorted_markers_by_name(marker_counts) ==
  LET M == DOMAIN marker_counts
      before(a, b) == str_lt(a, b)
      at(k) == CHOOSE m \in M : Cardinality({x \in M : before(x, m)}) = k - 1
  IN  [k \in 1..Cardinality(M) |-> <<at(k), marker_counts[at(k)]>>]

\* sorted(marker_counts.items(), key=lambda x: (MARKER_PRIORITY.get(x[0],
\* 999), x[0])): the items by priority, then by marker.
sorted_markers(marker_counts) ==
  LET M == DOMAIN marker_counts
      before(a, b) ==
        \/ MARKER_PRIORITY(a) < MARKER_PRIORITY(b)
        \/ (MARKER_PRIORITY(a) = MARKER_PRIORITY(b) /\ str_lt(a, b))
      at(k) == CHOOSE m \in M : Cardinality({x \in M : before(x, m)}) = k - 1
  IN  [k \in 1..Cardinality(M) |-> <<at(k), marker_counts[at(k)]>>]

\* display_summary_panel: what it prints, None for an empty list (nothing
\* is printed); otherwise the total, the number of files, the breakdown
\* (marker and count, in the order shown) and the text in the panel.
display_summary_panel(tasks) ==
  IF tasks = <<>> THEN None
  ELSE LET total == Len(tasks)
           marker_counts ==
             [m \in {tasks[i].marker : i \in 1..Len(tasks)} |->
                Cardinality({i \in 1..Len(tasks) : tasks[i].marker = m})]
           unique_files == Cardinality({tasks[i].file : i \in 1..Len(tasks)})
           file_word == IF unique_files = 1 THEN <<"f", "i", "l", "e">> ELSE <<"f", "i", "l", "e", "s">>
           task_word == IF total = 1 THEN <<"t", "a", "s", "k">> ELSE <<"t", "a", "s", "k", "s">>
           all_parts == sorted_markers(marker_counts)
           marker_parts == SelectSeq(all_parts, LAMBDA p : p[2] > 0)
       IN  Some([total |-> total,
                 unique_files |-> unique_files,
                 marker_parts |-> marker_parts,
                 content |->
                   <<"T", "o", "t", "a", "l", ":", " ">> \o int_str(total) \o <<" ">> \o task_word
                   \o <<" ", "i", "n", " ">> \o int_str(unique_files) \o <<" ">> \o file_word
                   \o <<"\n">>
                   \o join_str([k \in 1..Len(marker_parts) |->
                                  marker_parts[k][1] \o <<":", " ">>
                                  \o int_str(marker_parts[k][2])], <<" ", "|", " ">>)])

\* ------------------------------------------------------------ summary calls
\* display_summary_panel as a function of the task list.
SummaryTasks ==
  {Task(<<"a", ".", "p", "y">>, 1, sNOTE, <<"#", " ", "N", "O", "T", "E", " ", "n">>),
   Task(<<"a", ".", "p", "y">>, 2, sBUG, <<"#", " ", "B", "U", "G", " ", "b">>),
   Task(<<"b", ".", "p", "y">>, 1, sTODO, <<"#", " ", "T", "O", "D", "O", " ", "t">>),
   Task(<<"b", ".", "p", "y">>, 2, sCHECKBOX, <<"-", " ", "[", " ", "]", " ", "c">>),
   Task(<<"a", ".", "p", "y">>, 3, <<"X", "X", "X">>, <<"#", " ", "X", "X", "X">>),
   Task(<<"b", ".", "p", "y">>, 3, <<"A", "B", "C">>, <<"#", " ", "A", "B", "C">>),
   Task(<<"s", "u", "b", "/", "n", ".", "m", "d">>, 1, sTODO, <<"#", " ", "T", "O", "D", "O", " ", "u">>)}

SummaryLists == SeqsUpTo(SummaryTasks, MaxTasks)

InitSummary ==
  /\ call \in [tasks : SummaryLists]
  /\ returned = None
  /\ pc = "summary"
  /\ tree = {}
  /\ args = NoArgs
  /\ sort_by = ""
  /\ ignore_patterns = None
  /\ detector = None
  /\ directory_path = <<>>
  /\ outcome = <<>>
  /\ results = <<>>
  /\ stdout = <<>>

CallSummary ==
  /\ pc = "summary"
  /\ returned' = Some(display_summary_panel(call.tasks))
  /\ pc' = "summarised"
  /\ UNCHANGED <<tree, args, sort_by, ignore_patterns, detector,
                 directory_path, outcome, results, call, stdout>>

NextSummary == CallSummary

SpecSummary == InitSummary /\ [][NextSummary]_vars
\* ------------------------------------------------------------ factory calls
\* create_detector and get_formatter as functions of their arguments.
Tags ==
  {"comment", "text", "json", "markdown", "checkbox", "composite", "Comment",
   "TEXT", "Json", "md", "xml", ""}

InitFactory ==
  /\ call \in [fn : {"create_detector"}, tag : Tags,
               markers : {None} \cup {Some(m) : m \in MarkerLists},
               git_verbose : {FALSE}]
             \cup [fn : {"get_formatter"}, tag : Tags, markers : {None},
                   git_verbose : BOOLEAN]
  /\ returned = None
  /\ pc = "factory"
  /\ tree = {}
  /\ args = NoArgs
  /\ sort_by = ""
  /\ ignore_patterns = None
  /\ detector = None
  /\ directory_path = <<>>
  /\ outcome = <<>>
  /\ results = <<>>
  /\ stdout = <<>>

CallCreateDetector ==
  /\ pc = "factory"
  /\ call.fn = "create_detector"
  /\ returned' = Some(create_detector(call.tag, call.markers))
  /\ pc' = "made"
  /\ UNCHANGED <<tree, args, sort_by, ignore_patterns, detector,
                 directory_path, outcome, results, call, stdout>>

CallGetFormatter ==
  /\ pc = "factory"
  /\ call.fn = "get_formatter"
  /\ returned' = Some(get_formatter(call.tag, call.git_verbose))
  /\ pc' = "made"
  /\ UNCHANGED <<tree, args, sort_by, ignore_patterns, detector,
                 directory_path, outcome, results, call, stdout>>

NextFactory == CallCreateDetector \/ CallGetFormatter

SpecFactory == InitFactory /\ [][NextFactory]_vars
\* ------------------------------------------------------------ formatter calls
\* Formatter.format as a function of the formatter and the task list.

\* A Task with its attribution fields set.
attributed(task, author, email, hash, date, message) ==
  [task EXCEPT !.author = author, !.author_email = email,
               !.commit_hash = hash, !.commit_date = date,
               !.commit_message = message]

\* The Tasks handed to the formatters: without attribution (one with a
\* quote, a tab, a backslash and its own "[BUG]" in the text), with all of
\* it, and with part of it (an empty author, a date that does not parse).
FormatTasks ==
  {Task(<<"a", ".", "p", "y">>, 2, sTODO, <<"#", " ", "T", "O", "D", "O", " ", "a">>),
   Task(<<"a", ".", "p", "y">>, 10, sBUG, <<"s", " ", "=", " ", "\"", "[", "B", "U", "G", "]", "\t", "\\", "\"", " ", " ", "#", " ", "B", "U", "G">>),
   attributed(Task(<<"b", "/", "c", ".", "m", "d">>, 1, sCHECKBOX, <<"-", " ", "[", " ", "]", " ", "t">>),
              Some(<<"A", "l">>), Some(<<"a", "@", "x", ".", "i", "o">>), Some(<<"0", "1", "2", "3", "4", "5", "6", "7", "8", "9", "a", "b">>),
              Some(<<"2", "0", "2", "4", "-", "0", "5", "-", "0", "1">>), Some(<<"f", "i", "x", " ", "\"", "i", "t", "\"">>)),
   attributed(Task(<<"a", ".", "p", "y">>, 3, <<"X", "X", "X">>, <<"X", "X", "X">>),
              Some(<<>>), None, Some(<<"a", "b", "c">>), Some(<<"s", "o", "o", "n">>), None),
   attributed(Task(<<"b", "/", "c", ".", "m", "d">>, 12, sNOTE, <<"*", " ", "[", " ", "]", " ", "N", "O", "T", "E">>),
              Some(<<"B", "o">>), None, None, None, Some(<<"x">>))}

TaskLists == SeqsUpTo(FormatTasks, MaxTasks)

Formatters ==
  {TextFormatter(FALSE), TextFormatter(TRUE), JSONFormatter,
   MarkdownFormatter(FALSE), MarkdownFormatter(TRUE)}

InitFormat ==
  /\ call \in [formatter : Formatters, tasks : TaskLists]
  /\ returned = None
  /\ pc = "format"
  /\ tree = {}
  /\ args = NoArgs
  /\ sort_by = ""
  /\ ignore_patterns = None
  /\ detector = None
  /\ directory_path = <<>>
  /\ outcome = <<>>
  /\ results = <<>>
  /\ stdout = <<>>

CallFormat ==
  /\ pc = "format"
  /\ returned' = Some(format(call.formatter, call.tasks))
  /\ pc' = "formatted"
  /\ UNCHANGED <<tree, args, sort_by, ignore_patterns, detector,
                 directory_path, outcome, results, call, stdout>>

NextFormat == CallFormat

SpecFormat == InitFormat /\ [][NextFormat]_vars
\* ------------------------------------------------------------ sort calls
\* Tasks to sort: the first two have equal keys in both modes, the third
\* shares their (file, line) only.
SortTasks ==
  {Task(<<"a", ".", "p", "y">>, 1, sNOTE, <<"#", " ", "N", "O", "T", "E", " ", "n">>),
   Task(<<"a", ".", "p", "y">>, 1, sNOTE, <<"#", " ", "N", "O", "T", "E", " ", "m">>),
   Task(<<"a", ".", "p", "y">>, 1, sCHECKBOX, <<"-", " ", "[", " ", "]", " ", "N", "O", "T", "E">>),
   Task(<<"b", ".", "p", "y">>, 1, sBUG, <<"#", " ", "B", "U", "G", " ", "b">>),
   Task(<<"a", ".", "p", "y">>, 2, sTODO, <<"#", " ", "T", "O", "D", "O", " ", "t">>)}

SortLists == SeqsUpTo(SortTasks, MaxTasks)

InitSort ==
  /\ call \in [tasks : SortLists, sort_by : SortArgs]
  /\ returned = None
  /\ pc = "sort"
  /\ tree = {}
  /\ args = NoArgs
  /\ sort_by = ""
  /\ ignore_patterns = None
  /\ detector = None
  /\ directory_path = <<>>
  /\ outcome = <<>>
  /\ results = <<>>
  /\ stdout = <<>>

\* results.sort(key=get_sort_key(sort_by)) on the list of the call.
CallSort ==
  /\ pc = "sort"
  /\ results' = sort(call.tasks, call.sort_by)
  /\ pc' = "sorted"
  /\ UNCHANGED <<tree, args, sort_by, ignore_patterns, detector,
                 directory_path, outcome, call, returned, stdout>>

\* The same sort applied to the list it has produced.
SortAgain ==
  /\ pc = "sorted"
  /\ returned' = Some(sort(results, call.sort_by))
  /\ pc' = "resorted"
  /\ UNCHANGED <<tree, args, sort_by, ignore_patterns, detector,
                 directory_path, outcome, results, call, stdout>>

NextSort == CallSort \/ SortAgain

SpecSort == InitSort /\ [][NextSort]_vars
\* ------------------------------------------------------------ cli.py
\* [x.strip() for x in s.split(",") if x.strip()]
RECURSIVE stripped_items(_)
stripped_items(items) ==
  IF items = <<>> THEN <<>>
  ELSE (IF strip(Head(items)) # <<>> THEN <<strip(Head(items))>> ELSE <<>>)
       \o stripped_items(Tail(items))

comma_list(s) == stripped_items(split(s, ",", <<>>))

\* The arguments main hands to scan_directory.
scan_args(argv) ==
  [directory |-> argv.path,
   markers |-> Some(comma_list(argv.markers)),
   ignore_patterns |->
     Some(IF argv.ignore = <<>> THEN <<>> ELSE comma_list(argv.ignore)),
   detector |-> None,
   ignore_hidden |-> ~argv.include_hidden]

\* scan_directory as a function of the tree and its arguments a: what the
\* loop does with entry f, what it gathers from the entries in catalogue
\* order (the order of enumeration plays no part in the list returned),
\* and the sorted list.
scan_outcome(a, f) ==
  LET filepath == Path(a.directory) \o Catalogue[f].rel
      patterns == IF IsNone(a.ignore_patterns) THEN <<>>
                  ELSE Get(a.ignore_patterns)
  IN  IF Catalogue[f].is_dir THEN "directory"
      ELSE IF lower(suffix(filepath)) \in BINARY_EXTENSIONS THEN "binary"
      ELSE IF should_ignore_path(filepath, patterns, a.ignore_hidden)
      THEN "ignored"
      ELSE IF read_lines(effective_detector(a.detector, a.markers),
                         str(filepath), Catalogue[f].lines,
                         Catalogue[f].fault, 1, <<>>).raised
      THEN "fault"
      ELSE "read"

RECURSIVE scan_gathered(_, _, _)
scan_gathered(t, a, n) ==
  IF n = 0 THEN <<>>
  ELSE scan_gathered(t, a, n - 1)
       \o (IF n \in t /\ scan_outcome(a, n) \in {"read", "fault"}
           THEN read_lines(effective_detector(a.detector, a.markers),
                           str(Path(a.directory) \o Catalogue[n].rel),
                           Catalogue[n].lines, Catalogue[n].fault, 1,
                           <<>>).tasks
           ELSE <<>>)

scan_directory(t, a, s) == sort(scan_gathered(t, a, Len(Catalogue)), s)

\* What is written to standard output: the panel, or a print of a text.
written(what, text) == [what |-> what, text |-> text]

\* A variant that shows the panel in every format.
shows_panel_in_any_format == results # <<>>

\* if tasks and args.format == "text"
shows_panel == results # <<>> /\ call.format = "text"

\* ------------------------------------------------------------ CLI runs
\* main from the parsed arguments on.
DEFAULT_MARKERS_ARG == <<"T", "O", "D", "O", ",", "F", "I", "X", "M", "E", ",", "B", "U", "G", ",", "N", "O", "T", "E", ",", "H", "A", "C", "K", ",", "C", "H", "E", "C", "K", "B", "O", "X">>

Argv ==
  [path : {<<".">>, <<"s", "u", "b">>},
   markers : {DEFAULT_MARKERS_ARG, <<" ", "F", "I", "X", "M", "E", " ", ",", ",", " ", "T", "O", "D", "O", ",">>, <<"F", "I", "X", "M", "E">>},
   format : {"text", "json", "markdown"},
   ignore : {<<>>, <<"b", ".", "p", "y", ",", " ", "s", "u", "b">>, <<".">>},
   sort : {"file", "marker"},
   include_hidden : BOOLEAN]

InitCli ==
  /\ tree \in Trees
  /\ call \in Argv
  /\ pc = "main"
  /\ args = NoArgs
  /\ sort_by = ""
  /\ ignore_patterns = None
  /\ detector = None
  /\ directory_path = <<>>
  /\ outcome = [f \in tree |-> "pending"]
  /\ results = <<>>
  /\ returned = None
  /\ stdout = <<>>

\* markers and ignore_patterns are parsed and scan_directory is called:
\* the whole scan, up to its return.
Scan ==
  /\ pc = "main"
  /\ LET a == scan_args(call)
     IN  /\ args' = a
         /\ ignore_patterns' = a.ignore_patterns
         /\ detector' = Some(effective_detector(a.detector, a.markers))
         /\ directory_path' = Path(a.directory)
         /\ sort_by' = call.sort
         /\ outcome' = [f \in tree |-> scan_outcome(a, f)]
         /\ results' = scan_directory(tree, a, call.sort)
  /\ pc' = "scanned"
  /\ UNCHANGED <<tree, call, returned, stdout>>

\* display_summary_panel(tasks); print()
ShowPanel ==
  /\ pc = "scanned"
  /\ shows_panel
  /\ stdout' = stdout
               \o (IF IsNone(display_summary_panel(results)) THEN <<>>
                   ELSE <<written("panel",
                                  Get(display_summary_panel(results)).content)>>)
               \o <<written("print", <<>>)>>
  /\ pc' = "format"
  /\ UNCHANGED <<tree, args, sort_by, ignore_patterns, detector,
                 directory_path, outcome, results, call, returned>>

NoPanel ==
  /\ pc = "scanned"
  /\ ~shows_panel
  /\ pc' = "format"
  /\ UNCHANGED <<tree, args, sort_by, ignore_patterns, detector,
                 directory_path, outcome, results, call, returned, stdout>>

\* formatter = get_formatter(args.format); print(formatter.format(tasks))
PrintTasks ==
  /\ pc = "format"
  /\ LET formatter == Get(get_formatter(call.format, FALSE).value)
     IN  stdout' = stdout \o <<written("print", format(formatter, results))>>
  /\ pc' = "exit"
  /\ UNCHANGED <<tree, args, sort_by, ignore_patterns, detector,
                 directory_path, outcome, results, call, returned>>

NextCli == Scan \/ ShowPanel \/ NoPanel \/ PrintTasks

SpecCli == InitCli /\ [][NextCli]_vars
\* ------------------------------------------------------------ claims

\* C1: a comment detector returns at most one Task for a line, and the
\* Task's marker is the first marker of the configured list, in list
\* order, that occurs in the line; the position in the line plays no part.
C1_FirstConfiguredMarker ==
  (pc = "detected" /\ call.detector.kind = "comment") =>
    LET M == call.detector.markers
        out == Get(returned)
        found == {i \in 1..Len(M) : contains(call.line, M[i])}
    IN  /\ Len(out) <= 1
        /\ Len(out) = 1 =>
             \E i \in found : /\ \A j \in found : i <= j
                              /\ out[1].marker = M[i]

\* C1 witness: FIXME is configured before TODO and stands after it in the
\* line; the Task is a FIXME.
C1_Witness ==
  /\ pc = "detected"
  /\ call.detector = CommentMarkerDetector(Some(<<sFIXME, sTODO>>))
  /\ call.line = <<"#", " ", "T", "O", "D", "O", " ", "F", "I", "X", "M", "E", "\n">>
  /\ Len(Get(returned)) = 1
  /\ Get(returned)[1].marker = sFIXME

\* Some component of the entry's path below the root starts with ".".
hidden_below_root(f) ==
  \E i \in 1..Len(Catalogue[f].rel) : startswith(Catalogue[f].rel[i], <<".">>)

\* The loop has got to the ignore rules for this entry.
reached_ignore_rules(f) ==
  outcome[f] \in {"ignored", "read", "fault"}

\* C2: with ignore_hidden a file is skipped exactly when a component of its
\* path other than the root starts with "." (here with no ignore pattern,
\* so that the hidden rule alone decides), whatever the root looks like;
\* without ignore_hidden no file is skipped for being hidden, and no Task
\* refers to a skipped file.
C2_HiddenBelowRootOnly ==
  \A f \in tree :
    (reached_ignore_rules(f) /\ IsNone(args.ignore_patterns)) =>
      /\ args.ignore_hidden =>
           (outcome[f] = "ignored" <=> hidden_below_root(f))
      /\ ~args.ignore_hidden => outcome[f] # "ignored"
      /\ outcome[f] = "ignored" =>
           \A i \in 1..Len(results) : results[i].file # str(filepath_of(f))

\* Some ignore pattern of the call matches the entry: "*p*" the whole path
\* string, or p the file name.
some_pattern_matches(f) ==
  /\ ~IsNone(args.ignore_patterns)
  /\ \E i \in 1..Len(Get(args.ignore_patterns)) :
       LET p == Get(args.ignore_patterns)[i]
       IN  \/ fnmatch(str(filepath_of(f)), <<"*">> \o p \o <<"*">>)
           \/ fnmatch(name(filepath_of(f)), p)

\* C3: a file some ignore pattern matches is skipped; a file no pattern
\* matches, and that the hidden rule does not skip, is read; with b.py
\* ignored, a scan of a.py and b.py for the default markers returns the one
\* Task of a.py.
C3_IgnorePatterns ==
  /\ \A f \in tree :
       reached_ignore_rules(f) =>
         /\ some_pattern_matches(f) => outcome[f] = "ignored"
         /\ (~some_pattern_matches(f)
             /\ ~(args.ignore_hidden /\ has_hidden_part(filepath_of(f))))
              => outcome[f] \in {"read", "fault"}
         /\ outcome[f] = "ignored" =>
              \A i \in 1..Len(results) : results[i].file # str(filepath_of(f))
  /\ (/\ pc = "return"
      /\ tree = {a_py, b_py}
      /\ args.ignore_patterns = Some(<<<<"b", ".", "p", "y">>>>)
      /\ IsNone(args.markers) /\ IsNone(args.detector)
      /\ ~has_hidden_part(directory_path))
       => /\ Len(results) = 1
          /\ results[1].file = str(filepath_of(a_py))

\* C3 witness: the scan has returned; b.py was skipped for the pattern
\* "b.py" alone and a.py, which no pattern matches, was read.
C3_Witness ==
  /\ pc = "return"
  /\ tree = {a_py, b_py}
  /\ args.ignore_patterns = Some(<<<<"b", ".", "p", "y">>>>)
  /\ ~has_hidden_part(filepath_of(b_py))
  /\ outcome[b_py] = "ignored"
  /\ outcome[a_py] = "read"
  /\ Len(results) = 1

Denylist ==
  {<<"p", "n", "g">>, <<"j", "p", "g">>, <<"j", "p", "e", "g">>, <<"e", "x", "e">>, <<"b", "i", "n">>, <<"s", "o">>, <<"d", "l", "l">>, <<"p", "y", "c">>}

\* The path string ends in a dot and a denylisted extension, after a
\* non-empty stem of the file name.
has_denied_extension(file) ==
  \E ext \in Denylist :
    /\ endswith(file, <<".">> \o ext)
    /\ Len(file) > Len(ext) + 1
    /\ file[Len(file) - Len(ext) - 1] # "/"

\* C4: no Task in the result list refers to a file with a denylisted
\* extension, at any point of the scan and whatever the arguments; such a
\* file is never read.
C4_NoTaskFromBinaryExtension ==
  /\ \A i \in 1..Len(results) : ~has_denied_extension(results[i].file)
  /\ \A f \in tree :
       (~Catalogue[f].is_dir /\ has_denied_extension(str(filepath_of(f)))
        /\ pc # "call")
         => outcome[f] \in {"pending", "binary"}

\* C4 witness: i.png, which holds a TODO, has been passed over with hidden
\* files included and no ignore pattern, and the scan has returned.
C4_Witness ==
  /\ pc = "return"
  /\ i_png \in tree
  /\ outcome[i_png] = "binary"
  /\ ~args.ignore_hidden
  /\ IsNone(args.ignore_patterns)

\* C5: a file whose read raises, at open or at any later line, adds no
\* Task to the result.
C5_FaultyFileAddsNoTask ==
  \A f \in tree :
    outcome[f] = "fault" =>
      \A i \in 1..Len(results) : results[i].file # str(filepath_of(f))

\* (file, line) of a is at most (file, line) of b.
file_line_le(a, b) ==
  \/ str_lt(a.file, b.file)
  \/ (a.file = b.file /\ a.line <= b.line)

\* C6: sorted by file, the returned list ascends in (file, line).
C6_SortedByFileAndLine ==
  (pc = "return" /\ sort_by = "file") =>
    \A i \in 1..(Len(results) - 1) : file_line_le(results[i], results[i + 1])

\* C6 witness: a list sorted by file in which a Task of lower marker
\* priority, in another file, stands before one of higher priority.
C6_Witness ==
  /\ pc = "return" /\ sort_by = "file"
  /\ \E i, j \in 1..Len(results) :
       /\ i < j
       /\ results[i].file # results[j].file
       /\ MARKER_PRIORITY(results[i].marker) > MARKER_PRIORITY(results[j].marker)

\* The rank of a marker as the claim gives it.
rank(m) ==
  IF m = <<"B", "U", "G">> THEN 0
  ELSE IF m = <<"F", "I", "X", "M", "E">> THEN 1
  ELSE IF m = <<"T", "O", "D", "O">> THEN 2
  ELSE IF m = <<"H", "A", "C", "K">> THEN 3
  ELSE IF m = <<"N", "O", "T", "E">> THEN 4
  ELSE IF m = <<"C", "H", "E", "C", "K", "B", "O", "X">> THEN 5
  ELSE 999

Known == {<<"B", "U", "G">>, <<"F", "I", "X", "M", "E">>, <<"T", "O", "D", "O">>, <<"H", "A", "C", "K">>, <<"N", "O", "T", "E">>, <<"C", "H", "E", "C", "K", "B", "O", "X">>}

\* (rank, marker, file, line) of a is at most that of b.
marker_le(a, b) ==
  \/ rank(a.marker) < rank(b.marker)
  \/ /\ rank(a.marker) = rank(b.marker)
     /\ \/ str_lt(a.marker, b.marker)
        \/ (a.marker = b.marker /\ file_line_le(a, b))

\* C7: sorted by marker, the returned list ascends in (rank, marker, file,
\* line): a BUG stands before every TODO, an unknown marker after every
\* known one, unknown markers in the order of their names, and Tasks of one
\* marker by file, then line.
C7_SortedByMarker ==
  (pc = "return" /\ sort_by = "marker") =>
    /\ \A i \in 1..(Len(results) - 1) : marker_le(results[i], results[i + 1])
    /\ \A i, j \in 1..Len(results) :
         /\ (results[i].marker = sBUG /\ results[j].marker = sTODO) => i < j
         /\ (results[i].marker \in Known /\ results[j].marker \notin Known)
              => i < j
         /\ (/\ results[i].marker \notin Known
             /\ results[j].marker \notin Known
             /\ str_lt(results[i].marker, results[j].marker)) => i < j
         /\ (/\ results[i].marker = results[j].marker
             /\ str_lt(results[i].file, results[j].file)) => i < j

\* C7 witness: a list sorted by marker with a BUG of u.txt before a TODO of
\* a.py; and one with a known marker before two unknown ones in the order
\* of their names, the last from line 1 of a.py.
C7_Witness ==
  /\ pc = "return" /\ sort_by = "marker"
  /\ \E i, j, k \in 1..Len(results) :
       /\ i < j /\ j < k
       /\ results[i].marker = sBUG
       /\ results[j].marker = <<"X", "X", "X">>
       /\ results[k].marker = <<"x">>
       /\ str_lt(results[k].file, results[j].file)

\* C8: the returned list is the sort of what one fixed enumeration order
\* gathers, so that for the same tree and arguments every enumeration
\* order returns the same list, in every sort mode.
C8_OrderOfEnumerationIrrelevant ==
  pc = "return" =>
    results = sort(gathered_in_catalogue_order(Get(detector), Len(Catalogue)),
                   sort_by)

\* C8 witness: the scan has returned Tasks of two files with the same
\* marker and line, which only the file tells apart.
C8_Witness ==
  /\ pc = "return"
  /\ \E i, j \in 1..Len(results) :
       /\ results[i].file # results[j].file
       /\ results[i].marker = results[j].marker
       /\ results[i].line = results[j].line

\* C9: a detector passed to the call is the detector used, whatever the
\* markers argument: the list returned is what that detector finds, and
\* with the detector for TODO every Task is a TODO.
C9_DetectorArgumentWins ==
  (pc # "call" /\ ~IsNone(args.detector)) =>
    /\ detector = args.detector
    /\ \A i \in 1..Len(results) :
         /\ results[i].marker = sTODO
         /\ results[i].marker # sCHECKBOX
    /\ pc = "return" =>
         results = sort(gathered_in_catalogue_order(Get(args.detector),
                                                    Len(Catalogue)), sort_by)

\* C9 witness: the detector for TODO was passed with markers FIXME, TODO;
\* b.py, whose second line holds both, was read, and the scan returned.
C9_Witness ==
  /\ pc = "return"
  /\ ~IsNone(args.detector)
  /\ args.markers = Some(<<sFIXME, sTODO>>)
  /\ b_py \in tree
  /\ outcome[b_py] = "read"
  /\ Len(results) >= 2

\* The markers argument was left out or holds "CHECKBOX".
wants_checkbox ==
  \/ IsNone(args.markers)
  \/ \E i \in 1..Len(Get(args.markers)) : Get(args.markers)[i] = sCHECKBOX

\* C10: with no detector passed, the checkbox detector is applied exactly
\* when markers was left out or holds "CHECKBOX"; a marker list without
\* "CHECKBOX" gives no CHECKBOX Task; with markers left out the comment
\* detector has the five default markers and n.md gives both a NOTE and
\* CHECKBOX Tasks.
C10_CheckboxIffRequested ==
  (pc # "call" /\ IsNone(args.detector)) =>
    LET d == Get(detector)
        subs == {d.detectors[i] : i \in 1..Len(d.detectors)}
    IN  /\ d.kind = "composite"
        /\ (MarkdownCheckboxDetector \in subs) <=> wants_checkbox
        /\ ~wants_checkbox =>
             \A i \in 1..Len(results) : results[i].marker # sCHECKBOX
        /\ IsNone(args.markers) =>
             /\ d.detectors[1] =
                  CommentMarkerDetector(Some(<<sTODO, sFIXME, sBUG, sNOTE, sHACK>>))
             /\ (n_md \in tree /\ outcome[n_md] = "read") =>
                  /\ \E i \in 1..Len(results) : results[i].marker = sCHECKBOX
                  /\ \E i \in 1..Len(results) : results[i].marker = sNOTE
        /\ (wants_checkbox /\ n_md \in tree /\ outcome[n_md] = "read") =>
             \E i \in 1..Len(results) : results[i].marker = sCHECKBOX

\* C10 witness: markers was left out, n.md was read, and the scan returned
\* with a CHECKBOX Task and a NOTE Task.
C10_Witness ==
  /\ pc = "return"
  /\ IsNone(args.detector) /\ IsNone(args.markers)
  /\ n_md \in tree /\ outcome[n_md] = "read"
  /\ \E i \in 1..Len(results) : results[i].marker = sCHECKBOX
  /\ \E i \in 1..Len(results) : results[i].marker = sNOTE

\* The elements of a sequence.
elements(s) == {s[i] : i \in 1..Len(s)}

\* C11: with an explicit markers list and no detector passed, every Task
\* gathered or returned has a marker that is an element of the list.
C11_MarkersFilter ==
  (pc # "call" /\ IsNone(args.detector) /\ ~IsNone(args.markers)) =>
    \A i \in 1..Len(results) :
      results[i].marker \in elements(Get(args.markers))

\* C11 witness: markers FIXME, TODO and no detector; u.txt, whose first line
\* holds BUG only, and b.py were read, and the scan returned TODO Tasks.
C11_Witness ==
  /\ pc = "return"
  /\ IsNone(args.detector)
  /\ args.markers = Some(<<sFIXME, sTODO>>)
  /\ u_txt \in tree /\ outcome[u_txt] = "fault"
  /\ b_py \in tree /\ outcome[b_py] = "read"
  /\ Len(results) >= 2

\* marker occurs in line: at some offset every character of the marker is,
\* unchanged, the character of the line.
occurs(line, marker) ==
  \E i \in 0..Len(line) :
    \A k \in 1..Len(marker) :
      /\ i + k <= Len(line)
      /\ line[i + k] = marker[k]

\* C13: a comment detector returns a Task exactly when some configured
\* marker occurs in the line, character for character and in the same case;
\* "# todo: x" and "# Todo: x" give nothing for the marker TODO, and an
\* empty marker list gives nothing for every line.
C13_TaskIffMarkerOccurs ==
  (pc = "detected" /\ call.detector.kind = "comment") =>
    LET M == call.detector.markers
        out == Get(returned)
    IN  /\ (out # <<>>) <=> (\E m \in elements(M) : occurs(call.line, m))
        /\ M = <<>> => out = <<>>
        /\ (M = <<sTODO>> /\ call.line \in {<<"#", " ", "t", "o", "d", "o", ":", " ", "x">>, <<"#", " ", "T", "o", "d", "o", ":", " ", "x">>}) =>
             out = <<>>
        /\ (M = <<sTODO>> /\ call.line = <<"#", " ", "T", "O", "D", "O", ":", " ", "x">>) => Len(out) = 1

\* C13 witness: the detector for TODO was called on "# todo: x" and
\* returned nothing.
C13_Witness ==
  /\ pc = "detected"
  /\ call.detector = CommentMarkerDetector(Some(<<sTODO>>))
  /\ call.line = <<"#", " ", "t", "o", "d", "o", ":", " ", "x">>
  /\ returned = Some(<<>>)

\* A line that is empty or holds nothing but whitespace.
blank(line) == \A i \in 1..Len(line) : line[i] \in Whitespace

\* C14: whatever the configured marker list, a comment detector returns
\* nothing for an empty line and for a line of whitespace only.
C14_NothingOnBlankLine ==
  (pc = "detected" /\ call.detector.kind = "comment" /\ blank(call.line)) =>
    Get(returned) = <<>>

\* C12: an unknown tag is an error and gives nothing in place of what was
\* asked for: create_detector with a tag other than "comment", and
\* get_formatter with a tag other than "text", "json" or "markdown", raise
\* and return nothing; with a known tag they return that variant.
C12_UnknownTagRejected ==
  pc = "made" =>
    LET r == Get(returned)
        known == IF call.fn = "create_detector" THEN {"comment"}
                 ELSE {"text", "json", "markdown"}
    IN  /\ call.tag \notin known => (r.raised # "" /\ IsNone(r.value))
        /\ call.tag \in known =>
             /\ r.raised = ""
             /\ ~IsNone(r.value)
             /\ Get(r.value).kind = call.tag
        /\ (call.fn = "create_detector" /\ call.tag = "comment"
            /\ ~IsNone(call.markers)) =>
             Get(r.value).markers = Get(call.markers)

\* C12 witness: get_formatter was called with the tag "xml" and raised.
C12_Witness ==
  /\ pc = "made"
  /\ call.fn = "get_formatter"
  /\ call.tag = "xml"
  /\ Get(returned).raised = "ValueError"

\* json.loads, for what json.dumps writes here: an array of objects whose
\* values are strings, integers or null.  Each step takes the text and a
\* position and gives [v: what was read, next: the position after it].
RECURSIVE skip_whitespace(_, _)
skip_whitespace(s, i) ==
  IF i <= Len(s) /\ s[i] \in Whitespace THEN skip_whitespace(s, i + 1) ELSE i

json_unescape(e) ==
  CASE e = "n" -> "\n"
    [] e = "t" -> "\t"
    [] e = "\"" -> "\""
    [] e = "\\" -> "\\"
    [] e = "/" -> "/"

json_code_point(hex) == CASE hex = <<"0", "0", "1", "b">> -> ESC

\* The string whose opening quote is before position i.
RECURSIVE loads_string(_, _, _)
loads_string(s, i, acc) ==
  IF s[i] = "\"" THEN [v |-> acc, next |-> i + 1]
  ELSE IF s[i] # "\\" THEN loads_string(s, i + 1, Append(acc, s[i]))
  ELSE IF s[i + 1] = "u"
  THEN loads_string(s, i + 6,
                    Append(acc, json_code_point(SubSeq(s, i + 2, i + 5))))
  ELSE loads_string(s, i + 2, Append(acc, json_unescape(s[i + 1])))

is_digit(c) == \E d \in 1..10 : <<"0", "1", "2", "3", "4", "5", "6", "7", "8", "9">>[d] = c

digit_value(c) == (CHOOSE d \in 1..10 : <<"0", "1", "2", "3", "4", "5", "6", "7", "8", "9">>[d] = c) - 1

RECURSIVE loads_digits(_, _, _)
loads_digits(s, i, acc) ==
  IF i <= Len(s) /\ is_digit(s[i])
  THEN loads_digits(s, i + 1, 10 * acc + digit_value(s[i]))
  ELSE [v |-> acc, next |-> i]

loads_value(s, i) ==
  LET j == skip_whitespace(s, i)
  IN  CASE s[j] = "\"" ->
             LET r == loads_string(s, j + 1, <<>>)
             IN  [v |-> json_string(r.v), next |-> r.next]
        [] s[j] = "-" ->
             LET r == loads_digits(s, j + 1, 0)
             IN  [v |-> json_int(0 - r.v), next |-> r.next]
        [] is_digit(s[j]) ->
             LET r == loads_digits(s, j, 0)
             IN  [v |-> json_int(r.v), next |-> r.next]
        [] SubSeq(s, j, j + 3) = <<"n", "u", "l", "l">> -> [v |-> json_null, next |-> j + 4]

\* The members of the object whose opening brace is before position i.
RECURSIVE loads_members(_, _, _)
loads_members(s, i, acc) ==
  LET j == skip_whitespace(s, i)
  IN  IF s[j] = "}" THEN [v |-> acc, next |-> j + 1]
      ELSE IF s[j] = "," THEN loads_members(s, j + 1, acc)
      ELSE LET k == loads_string(s, j + 1, <<>>)
               colon == skip_whitespace(s, k.next)
               val == loads_value(s, colon + 1)
           IN  loads_members(s, val.next,
                             Append(acc, [key |-> k.v, value |-> val.v]))

\* The elements of the array whose opening bracket is before position i.
RECURSIVE loads_elements(_, _, _)
loads_elements(s, i, acc) ==
  LET j == skip_whitespace(s, i)
  IN  IF s[j] = "]" THEN [v |-> acc, next |-> j + 1]
      ELSE IF s[j] = "," THEN loads_elements(s, j + 1, acc)
      ELSE LET obj == loads_members(s, j + 1, <<>>)
           IN  loads_elements(s, obj.next, Append(acc, obj.v))

loads(s) == loads_elements(s, skip_whitespace(s, 1) + 1, <<>>).v

\* The keys of a parsed object, and the value under a key.
keys(obj) == {obj[i].key : i \in 1..Len(obj)}

item(obj, key) == obj[CHOOSE i \in 1..Len(obj) : obj[i].key = key].value

\* The five optional fields of a Task under their JSON keys.
optional_fields(task) ==
  <<[key |-> <<"a", "u", "t", "h", "o", "r">>, field |-> task.author],
    [key |-> <<"a", "u", "t", "h", "o", "r", "_", "e", "m", "a", "i", "l">>, field |-> task.author_email],
    [key |-> <<"c", "o", "m", "m", "i", "t", "_", "h", "a", "s", "h">>, field |-> task.commit_hash],
    [key |-> <<"c", "o", "m", "m", "i", "t", "_", "d", "a", "t", "e">>, field |-> task.commit_date],
    [key |-> <<"c", "o", "m", "m", "i", "t", "_", "m", "e", "s", "s", "a", "g", "e">>, field |-> task.commit_message]>>

\* C15: parsing what the JSON formatter returns gives an array as long as
\* the task list and in its order; object i has the file, line, marker and
\* text of task i, has each attribution key exactly when the task has that
\* field, with the field's value and never null, and no other key; the
\* empty list is written as [].
C15_JsonRoundTrip ==
  (pc = "formatted" /\ call.formatter.kind = "json") =>
    LET parsed == loads(Get(returned))
    IN  /\ Len(parsed) = Len(call.tasks)
        /\ call.tasks = <<>> => Get(returned) = <<"[", "]">>
        /\ \A i \in 1..Len(call.tasks) :
             LET task == call.tasks[i]
                 obj == parsed[i]
                 opt == optional_fields(task)
             IN  /\ Len(obj) = Cardinality(keys(obj))
                 /\ {<<"f", "i", "l", "e">>, <<"l", "i", "n", "e">>, <<"m", "a", "r", "k", "e", "r">>, <<"t", "e", "x", "t">>} \subseteq keys(obj)
                 /\ item(obj, <<"f", "i", "l", "e">>) = json_string(task.file)
                 /\ item(obj, <<"l", "i", "n", "e">>) = json_int(task.line)
                 /\ item(obj, <<"m", "a", "r", "k", "e", "r">>) = json_string(task.marker)
                 /\ item(obj, <<"t", "e", "x", "t">>) = json_string(task.text)
                 /\ \A k \in 1..5 :
                      /\ (opt[k].key \in keys(obj)) <=> ~IsNone(opt[k].field)
                      /\ opt[k].key \in keys(obj) =>
                           item(obj, opt[k].key) = json_string(Get(opt[k].field))
                 /\ keys(obj) \subseteq
                      {<<"f", "i", "l", "e">>, <<"l", "i", "n", "e">>, <<"m", "a", "r", "k", "e", "r">>, <<"t", "e", "x", "t">>}
                      \cup {opt[k].key : k \in 1..5}

\* C15 witness: the JSON formatter was called on three tasks, among them
\* one with every attribution field, one with some and one with none, and
\* what it returned has a null nowhere.
C15_Witness ==
  /\ pc = "formatted"
  /\ call.formatter.kind = "json"
  /\ Len(call.tasks) = 3
  /\ \E i, j, k \in 1..3 :
       /\ ~IsNone(call.tasks[i].commit_message)
       /\ ~IsNone(call.tasks[i].author_email)
       /\ IsNone(call.tasks[j].author_email)
       /\ ~IsNone(call.tasks[j].commit_hash)
       /\ IsNone(call.tasks[k].author)
       /\ call.tasks[k].line = 10
  /\ ~contains(Get(returned), <<"n", "u", "l", "l">>)

\* The k-th smallest element of a set of positions.
nth(P, k) == CHOOSE p \in P : Cardinality({q \in P : q < p}) = k - 1

\* The lines of a text: what lies between its newlines.
lines_of(s) ==
  LET newlines == {i \in 1..Len(s) : s[i] = "\n"}
      from(k) == IF k = 1 THEN 1 ELSE nth(newlines, k - 1) + 1
      to(k) == IF k = Cardinality(newlines) + 1 THEN Len(s)
               ELSE nth(newlines, k) - 1
  IN  [k \in 1..(Cardinality(newlines) + 1) |-> SubSeq(s, from(k), to(k))]

\* A colour code (ESC [ digits m) that starts at position j ends at
\* code_last(s, j); 0 when none starts there.
RECURSIVE code_end(_, _)
code_end(s, i) ==
  IF i <= Len(s) /\ is_digit(s[i]) THEN code_end(s, i + 1) ELSE i

code_last(s, j) ==
  IF /\ j + 2 <= Len(s) /\ s[j] = ESC /\ s[j + 1] = "["
     /\ code_end(s, j + 2) <= Len(s) /\ s[code_end(s, j + 2)] = "m"
  THEN code_end(s, j + 2) ELSE 0

\* A text with the colour codes taken out.
strip_ansi(s) ==
  LET starts == {j \in 1..Len(s) : s[j] = ESC /\ code_last(s, j) > 0}
      kept == {i \in 1..Len(s) :
                 \A j \in starts : i < j \/ i > code_last(s, j)}
  IN  [k \in 1..Cardinality(kept) |-> s[nth(kept, k)]]

\* "{file}:{line}: [{marker}] {text}" of a task.
plain_line(task) ==
  task.file \o <<":">> \o int_str(task.line) \o <<":", " ", "[">>
  \o task.marker \o <<"]", " ">> \o task.text

\* C16: for n >= 1 tasks the text formatter returns n lines, and line i,
\* its colour codes taken out, starts with "{file}:{line}: [{marker}]
\* {text}" of task i: no task is dropped and none changes place.
C16_TextOneLinePerTask ==
  (pc = "formatted" /\ call.formatter.kind = "text" /\ call.tasks # <<>>) =>
    LET out == lines_of(Get(returned))
    IN  /\ Len(out) = Len(call.tasks)
        /\ \A i \in 1..Len(call.tasks) :
             startswith(strip_ansi(out[i]), plain_line(call.tasks[i]))

\* C16 witness: the text formatter was called on three distinct tasks, one
\* whose text holds its own "[BUG]" and one with attribution, and returned
\* a text with colour codes in it.
C16_Witness ==
  /\ pc = "formatted"
  /\ call.formatter = TextFormatter(TRUE)
  /\ Len(call.tasks) = 3
  /\ call.tasks[1].marker = sBUG
  /\ truthy(call.tasks[2].author)
  /\ call.tasks[3].marker = sTODO
  /\ contains(Get(returned), Fore_LIGHTBLACK_EX)
  /\ strip_ansi(Get(returned)) # Get(returned)

\* The tasks that open a maximal run of tasks of one file.
run_starts(tasks) ==
  {i \in 1..Len(tasks) : i = 1 \/ tasks[i].file # tasks[i - 1].file}

\* What the markdown of a task list has to hold after the top heading: for
\* each task the heading of its file when it opens a run, then its bullet.
RECURSIVE run_lines(_, _)
run_lines(tasks, i) ==
  IF i > Len(tasks) THEN <<>>
  ELSE (IF i \in run_starts(tasks)
        THEN <<[heading |-> TRUE, text |-> <<"#", "#", " ">> \o tasks[i].file]>>
        ELSE <<>>)
       \o <<[heading |-> FALSE,
             text |-> <<"-", " ", "L", "i", "n", "e", " ">> \o int_str(tasks[i].line) \o <<":", " ", "[">>
                      \o tasks[i].marker \o <<"]", " ">> \o tasks[i].text]>>
       \o run_lines(tasks, i + 1)

\* C18: the markdown formatter writes one level-2 heading for each maximal
\* run of consecutive tasks of one file, in input order, and under it one
\* bullet "- Line {line}: [{marker}] {text}" for each task of the run: as
\* many headings as runs, as many bullets as tasks.
C18_MarkdownHeadingPerRun ==
  (pc = "formatted" /\ call.formatter.kind = "markdown"
   /\ call.tasks # <<>>) =>
    LET out == SelectSeq(lines_of(Get(returned)),
                         LAMBDA l : l # <<>>)
        want == run_lines(call.tasks, 1)
        headings == {i \in 1..Len(out) : startswith(out[i], <<"#", "#", " ">>)}
        bullets == {i \in 1..Len(out) : startswith(out[i], <<"-", " ", "L", "i", "n", "e", " ">>)}
    IN  /\ Cardinality(headings) = Cardinality(run_starts(call.tasks))
        /\ Cardinality(bullets) = Len(call.tasks)
        /\ Len(out) = 1 + Len(want)
        /\ out[1] = <<"#", " ", "O", "u", "t", "s", "t", "a", "n", "d", "i", "n", "g", " ", "T", "a", "s", "k", "s">>
        /\ \A i \in 1..Len(want) :
             IF want[i].heading THEN out[i + 1] = want[i].text
             ELSE startswith(out[i + 1], want[i].text)

\* C18 witness: the markdown formatter was called on three tasks of which
\* the first and the last are of one file and the middle one of another,
\* and wrote that file's heading twice.
C18_Witness ==
  /\ pc = "formatted"
  /\ call.formatter.kind = "markdown"
  /\ Len(call.tasks) = 3
  /\ call.tasks[1].file = call.tasks[3].file
  /\ call.tasks[1].file # call.tasks[2].file
  /\ LET out == lines_of(Get(returned))
     IN  Cardinality({i \in 1..Len(out) :
                        out[i] = <<"#", "#", " ">> \o call.tasks[1].file}) = 2

\* The markers of a task list in the order of their first appearance.
first_markers(list) ==
  LET firsts == {i \in 1..Len(list) :
                   \A j \in 1..(i - 1) : list[j].marker # list[i].marker}
  IN  [k \in 1..Cardinality(firsts) |-> list[nth(firsts, k)].marker]

occurrences(list, marker) ==
  Cardinality({i \in 1..Len(list) : list[i].marker = marker})

RECURSIVE sum_counts(_)
sum_counts(parts) ==
  IF parts = <<>> THEN 0 ELSE Head(parts)[2] + sum_counts(Tail(parts))

\* C19: the breakdown of the summary panel lists the markers that occur in
\* the task list and no other, each once with the number of its tasks, in
\* the order in which the markers first appear when the list is sorted by
\* "marker"; the counts add up to the total, and the second line of the
\* panel shows the breakdown in that order.
C19_BreakdownInMarkerOrder ==
  (pc = "summarised" /\ call.tasks # <<>>) =>
    LET panel == Get(Get(returned))
        parts == panel.marker_parts
        want == first_markers(sort(call.tasks, "marker"))
    IN  /\ [k \in 1..Len(parts) |-> parts[k][1]] = want
        /\ \A k \in 1..Len(parts) :
             /\ parts[k][2] = occurrences(call.tasks, parts[k][1])
             /\ parts[k][2] > 0
        /\ sum_counts(parts) = Len(call.tasks)
        /\ panel.total = Len(call.tasks)
        /\ lines_of(panel.content)[2] =
             join_str([k \in 1..Len(want) |->
                         want[k] \o <<":", " ">>
                         \o int_str(occurrences(call.tasks, want[k]))],
                      <<" ", "|", " ">>)

\* C19 witness: the panel was made for a TODO, a NOTE and another TODO
\* task, and its breakdown is TODO: 2, then NOTE: 1.
C19_Witness ==
  /\ pc = "summarised"
  /\ Len(call.tasks) = 3
  /\ call.tasks[2].marker = sNOTE
  /\ Get(Get(returned)).marker_parts = <<<<sTODO, 2>>, <<sNOTE, 1>>>>

\* No line of a file of the tree gives the detector of the scan a Task.
no_matching_line ==
  \A f \in tree :
    \A n \in 1..Len(Catalogue[f].lines) :
      detect(Get(detector), Catalogue[f].lines[n], n, <<>>) = <<>>

\* C17: a scan that finds nothing ends well: the scan of an empty tree, or
\* of one without a matching line, returns the empty list, and for the
\* empty list the run prints "No tasks found!" in text format, a document
\* that parses to the empty array in JSON format, and the top heading
\* followed by "_No tasks found._" in markdown format.
C17_NothingFoundIsSuccess ==
  /\ (pc \in {"scanned", "format", "exit"}
      /\ (tree = {} \/ no_matching_line)) => results = <<>>
  /\ (pc = "exit" /\ results = <<>>) =>
       /\ Len(stdout) = 1
       /\ stdout[1].what = "print"
       /\ LET out == stdout[1].text
          IN  /\ call.format = "text" => out = <<"N", "o", " ", "t", "a", "s", "k", "s", " ", "f", "o", "u", "n", "d", "!">>
              /\ call.format = "json" => loads(out) = <<>>
              /\ call.format = "markdown" =>
                   SelectSeq(lines_of(out), LAMBDA l : l # <<>>)
                     = <<<<"#", " ", "O", "u", "t", "s", "t", "a", "n", "d", "i", "n", "g", " ", "T", "a", "s", "k", "s">>, <<"_", "N", "o", " ", "t", "a", "s", "k", "s", " ", "f", "o", "u", "n", "d", ".", "_">>>>

\* C17 witness: a run in text format over a tree in which a.py was read and
\* gave nothing for the marker FIXME has ended with the message printed.
C17_Witness ==
  /\ pc = "exit"
  /\ call.format = "text"
  /\ a_py \in tree /\ outcome[a_py] = "read"
  /\ results = <<>>
  /\ stdout = <<written("print", <<"N", "o", " ", "t", "a", "s", "k", "s", " ", "f", "o", "u", "n", "d", "!">>)>>

\* The positions in standard output at which something of a kind was
\* written: the panel, and the prints that are not the blank separator.
panels == {i \in 1..Len(stdout) : stdout[i].what = "panel"}

task_lists ==
  {i \in 1..Len(stdout) : stdout[i].what = "print" /\ stdout[i].text # <<>>}

\* C20: in a run the summary panel is written exactly when the format is
\* text and the scan returned a Task, and then before the task list;
\* nothing is written before the scan has returned, and at the end the
\* formatted list (or the message for an empty list) has been written once.
C20_PanelThenTaskList ==
  /\ pc \in {"main", "scanned"} => stdout = <<>>
  /\ pc = "format" =>
       (/\ task_lists = {}
        /\ (panels # {}) <=> (call.format = "text" /\ results # <<>>))
  /\ pc = "exit" =>
       /\ Cardinality(task_lists) = 1
       /\ stdout[Len(stdout)] =
            written("print",
                    format(Get(get_formatter(call.format, FALSE).value),
                           results))
       /\ (panels # {}) <=> (call.format = "text" /\ results # <<>>)
       /\ Cardinality(panels) <= 1
       /\ \A i \in panels : \A j \in task_lists : i < j
       /\ results = scan_directory(tree, args, call.sort)

\* C20 witness: a run in text format that found two Tasks or more has
\* ended with the panel, the blank line and the task list written, in
\* that order.
C20_Witness ==
  /\ pc = "exit"
  /\ call.format = "text"
  /\ Len(results) >= 2
  /\ Len(stdout) = 3
  /\ stdout[1].what = "panel"
  /\ stdout[2] = written("print", <<>>)
  /\ stdout[3].what = "print" /\ stdout[3].text # <<>>

\* Two tasks of a list with the same sort key that are not the same task.
equal_keys(list, mode) ==
  \E i, j \in 1..Len(list) :
    /\ i < j
    /\ list[i] # list[j]
    /\ get_sort_key(mode, list[i]) = get_sort_key(mode, list[j])

\* C21: sorting a list that is already sorted under the same sort_by mode
\* gives the identical list, tasks with equal sort keys included.
C21_SortIdempotent ==
  pc = "resorted" => Get(returned) = results

\* A list out of order with two distinct tasks of equal marker keys has been
\* sorted by marker twice.
C21_Witness ==
  /\ pc = "resorted"
  /\ call.sort_by = "marker"
  /\ results # call.tasks
  /\ equal_keys(results, "marker")

\* How many times task t occurs in a list.
times(list, t) == Cardinality({i \in 1..Len(list) : list[i] = t})

\* Two lists hold the same tasks, field for field, the same number of times.
same_tasks(a, b) ==
  /\ Len(a) = Len(b)
  /\ \A i \in 1..Len(a) : times(a, a[i]) = times(b, a[i])

\* C22: the scan's sort returns the tasks the detectors created, every field
\* unchanged, none added and none dropped; the summary panel and the
\* formatters leave the task list, its length, its order and every field of
\* every task as they were.
C22_TasksNeverMutated ==
  [][/\ pc = "main"
        => same_tasks(results', scan_gathered(tree, scan_args(call), Len(Catalogue)))
     /\ pc \in {"scanned", "format"} => results' = results]_vars

\* A text run has sorted its tasks into another order, shown the panel and
\* printed the list.
C22_Witness ==
  /\ pc = "exit"
  /\ call.format = "text"
  /\ Len(stdout) = 3
  /\ Len(results) >= 3
  /\ results # scan_gathered(tree, args, Len(Catalogue))

\* The invariant of the data model on one task.
attribution_fields(task) ==
  {task.author, task.author_email, task.commit_hash, task.commit_date,
   task.commit_message}

well_formed(task) ==
  /\ task.line >= 1
  /\ task.marker # <<>>
  /\ \/ \A field \in attribution_fields(task) : IsNone(field)
     \/ \A field \in attribution_fields(task) : ~IsNone(field)

\* C23: every Task that scan_directory returns, whatever the marker list,
\* has line >= 1, a non-empty marker, and attribution fields that are all
\* present or all absent.
C23_ReturnedTasksWellFormed ==
  pc = "return" => \A i \in 1..Len(results) : well_formed(results[i])

\* The same for the calls whose marker list has no empty marker.
C23_WellFormedUnlessEmptyMarker ==
  (pc = "return" /\ args.markers # Some(<< <<>> >>))
    => \A i \in 1..Len(results) : well_formed(results[i])

\* line is a list item with an unchecked box: indentation, then "-", "*"
\* or "+", a space and "[ ]".
unchecked_box(line) ==
  \E n \in 0..Len(line) :
    /\ \A i \in 1..n : line[i] \in Whitespace
    /\ Len(line) >= n + 5
    /\ line[n + 1] \in {"-", "*", "+"}
    /\ line[n + 2] = " "
    /\ line[n + 3] = "[" /\ line[n + 4] = " " /\ line[n + 5] = "]"

\* The places in results of the CHECKBOX Tasks of file f.
checkbox_tasks(f) ==
  {i \in 1..Len(results) :
     /\ results[i].file = str(filepath_of(f))
     /\ results[i].marker = sCHECKBOX}

\* C24: in a default scan the CHECKBOX Tasks of a file that was read are one
\* for each line that is a list item with an unchecked box, with that
\* line's number, and none for a checked box or any other line; n.md, with
\* two unchecked boxes and a checked one, gives exactly two.
C24_CheckboxPerUncheckedBox ==
  (pc = "return" /\ IsNone(args.detector) /\ IsNone(args.markers)) =>
    /\ \A f \in tree :
         outcome[f] = "read" =>
           LET boxes == {k \in 1..Len(Catalogue[f].lines) :
                           unchecked_box(Catalogue[f].lines[k])}
           IN  /\ {results[i].line : i \in checkbox_tasks(f)} = boxes
               /\ Cardinality(checkbox_tasks(f)) = Cardinality(boxes)
    /\ (n_md \in tree /\ outcome[n_md] = "read") =>
         Cardinality(checkbox_tasks(n_md)) = 2

\* A default scan has read n.md and returned its two CHECKBOX Tasks.
C24_Witness ==
  /\ pc = "return"
  /\ IsNone(args.detector) /\ IsNone(args.markers)
  /\ n_md \in tree /\ outcome[n_md] = "read"
  /\ {results[i].line : i \in checkbox_tasks(n_md)} = {1, 3}

\* The markers of the comment detector of the call.
configured_markers ==
  IF ~IsNone(args.detector) THEN elements(Get(args.detector).markers)
  ELSE IF IsNone(args.markers) THEN {sTODO, sFIXME, sBUG, sNOTE, sHACK}
  ELSE elements(Get(args.markers))

\* Line k of file f holds a configured marker.
marker_line(f, k) ==
  \E marker \in configured_markers : occurs(Catalogue[f].lines[k], marker)

\* results[i] is a comment-marker Task of line k of file f.
comment_task_of(i, f, k) ==
  /\ results[i].file = str(filepath_of(f))
  /\ results[i].line = k
  /\ results[i].marker \in configured_markers
  /\ occurs(Catalogue[f].lines[k], results[i].marker)
  /\ results[i].text = strip(Catalogue[f].lines[k])

\* results[i] is the Task of the checkbox detector for line k of file f.
checkbox_task_of(i, f, k) ==
  /\ results[i].file = str(filepath_of(f))
  /\ results[i].line = k
  /\ results[i].marker = sCHECKBOX
  /\ unchecked_box(Catalogue[f].lines[k])

\* Every marker line of every file read has exactly one comment-marker Task.
complete ==
  \A f \in tree :
    outcome[f] = "read" =>
      \A k \in 1..Len(Catalogue[f].lines) :
        marker_line(f, k) =>
          Cardinality({i \in 1..Len(results) : comment_task_of(i, f, k)}) = 1

\* Every Task is the Task of a line of a file whose outcome is in `from`.
sound(from) ==
  \A i \in 1..Len(results) :
    \E f \in tree :
      /\ outcome[f] \in from
      /\ \E k \in 1..Len(Catalogue[f].lines) :
           \/ comment_task_of(i, f, k) /\ marker_line(f, k)
           \/ checkbox_task_of(i, f, k)

\* C25: the result has exactly one comment-marker Task, with the file's
\* path, the line's number and the stripped line, for every marker line of
\* every file that was not skipped and was readable, faults in other files
\* notwithstanding; and every Task of the result is the Task of a line of
\* such a file.
C25_CompleteAndNumbered ==
  pc = "return" => complete /\ sound({"read"})

\* The same, counting the lines read before a fault as lines of the scan.
C25_CompleteAndNumberedUpToFault ==
  pc = "return" => complete /\ sound({"read", "fault"})

\* The places in results of the Tasks of line k of file f.
tasks_of_line(f, k) ==
  {i \in 1..Len(results) :
     results[i].file = str(filepath_of(f)) /\ results[i].line = k}

\* C26: in a default scan the Tasks of a line of a file that was read are
\* the comment detector's result followed by the checkbox detector's: a
\* line with a marker that is also an unchecked box gives two Tasks, the
\* comment-marker Task before the CHECKBOX Task; a line that is only one of
\* the two gives that detector's one Task; any other line gives none.
C26_CompositeConcatenates ==
  (pc = "return" /\ IsNone(args.detector) /\ IsNone(args.markers)) =>
    \A f \in tree :
      outcome[f] = "read" =>
        \A k \in 1..Len(Catalogue[f].lines) :
          LET here == tasks_of_line(f, k)
              line == Catalogue[f].lines[k]
          IN  /\ (marker_line(f, k) /\ unchecked_box(line)) =>
                   /\ Cardinality(here) = 2
                   /\ \E i, j \in here :
                        i < j /\ comment_task_of(i, f, k) /\ checkbox_task_of(j, f, k)
              /\ (marker_line(f, k) /\ ~unchecked_box(line)) =>
                   /\ Cardinality(here) = 1
                   /\ \A i \in here : comment_task_of(i, f, k)
              /\ (~marker_line(f, k) /\ unchecked_box(line)) =>
                   /\ Cardinality(here) = 1
                   /\ \A i \in here : checkbox_task_of(i, f, k)
              /\ (~marker_line(f, k) /\ ~unchecked_box(line)) => here = {}

\* A default scan sorted by file has read n.md, whose third line is both a
\* NOTE and an unchecked box and whose first line is a box only, and a.py,
\* whose lines are a marker line and a plain line.
C26_Witness ==
  /\ pc = "return"
  /\ sort_by = "file"
  /\ IsNone(args.detector) /\ IsNone(args.markers)
  /\ n_md \in tree /\ outcome[n_md] = "read"
  /\ a_py \in tree /\ outcome[a_py] = "read"
  /\ Cardinality(tasks_of_line(n_md, 3)) = 2
  /\ Cardinality(tasks_of_line(n_md, 1)) = 1
  /\ Cardinality(tasks_of_line(a_py, 2)) = 1

\* The ways a file ends: skipped for one of four reasons, or read, to the
\* end or up to a fault.
Handled == {"directory", "binary", "ignored", "read", "fault"}

\* C27: a scan runs to completion: it reaches its return; a file that has
\* been handled is not handled again; and the list returned is the sorted
\* list of all the Tasks of the tree, with no file left unprocessed.
C27_ScanCompletes ==
  /\ <>(pc = "return")
  /\ [][\A f \in tree :
          /\ outcome[f] # "pending" => outcome'[f] = outcome[f]
          /\ outcome'[f] # outcome[f] => outcome'[f] \in Handled]_vars
  /\ [](pc = "return" =>
          /\ \A f \in tree : outcome[f] \in Handled
          /\ results = scan_directory(tree, args, sort_by))

\* A scan has returned after skipping a directory, reading a file in it,
\* and meeting a read fault.
C27_Witness ==
  /\ pc = "return"
  /\ n_md \in tree /\ outcome[n_md] = "read"
  /\ u_txt \in tree /\ outcome[u_txt] = "fault"
  /\ \E f \in tree : outcome[f] = "directory"
  /\ Len(results) >= 3

\* C28: a sort_by value that is neither "marker" nor "file" is accepted: the
\* scan returns, and its list is the one sort_by = "file" gives, ascending
\* in (file, line).
C28_UnknownSortModeIsFile ==
  (pc = "return" /\ sort_by # "marker") =>
    /\ results = scan_directory(tree, args, "file")
    /\ \A i \in 1..(Len(results) - 1) : file_line_le(results[i], results[i + 1])

\* A scan with sort_by = "name" has returned a list that the marker order
\* would have arranged otherwise.
C28_Witness ==
  /\ pc = "return"
  /\ sort_by = "name"
  /\ Len(results) >= 3
  /\ results # scan_directory(tree, args, "marker")

\* A pattern without glob metacharacters.
plain(pattern) ==
  \A i \in 1..Len(pattern) : pattern[i] \notin {"*", "?", "["}

\* No file of the tree was opened and the list returned is empty.
all_skipped ==
  /\ results = <<>>
  /\ \A f \in tree : outcome[f] \in {"directory", "binary", "ignored"}

\* C29: when a plain ignore pattern occurs in the root path string, every
\* file under the root is skipped and the scan returns an empty list.
C29_RootPrefixMatched ==
  (pc # "main"
   /\ \E pattern \in elements(Get(args.ignore_patterns)) :
        plain(pattern) /\ occurs(call.path, pattern))
    => all_skipped

\* C29, amended: the same when the pattern occurs in the prefix the path
\* strings of the files carry, which is the root's path for every root but
\* ".", whose files carry no prefix.
C29_CarriedPrefixMatched ==
  (pc # "main"
   /\ directory_path # <<>>
   /\ \E pattern \in elements(Get(args.ignore_patterns)) :
        plain(pattern) /\ occurs(str(directory_path), pattern))
    => all_skipped

\* A tree holding a.py and sub/n.md scanned through the root "sub" with the
\* pattern "sub" has given nothing, and the same tree through the root "."
\* with the same arguments gives Tasks.
C29_Witness ==
  /\ pc = "exit"
  /\ call.path = <<"s", "u", "b">>
  /\ call.include_hidden
  /\ <<"s", "u", "b">> \in elements(Get(args.ignore_patterns))
  /\ a_py \in tree /\ n_md \in tree
  /\ outcome[a_py] = "ignored"
  /\ results = <<>>
  /\ scan_directory(tree, [args EXCEPT !.directory = <<".">>], call.sort) # <<>>

====
